---------------------------- MODULE Spec2Model ----------------------------
(***************************************************************************)
(* A model of PaperScout: the OpenReview fetch client (retry, API          *)
(* fallback, caches), its caller load_data, the review-score aggregation,  *)
(* the filters and the sort, and the page with its session state.          *)
(*                                                                         *)
(* Encodings.  A Python number is a reduced rational [n, d] with d >= 1;   *)
(* Python's None, where a number may stand, is [n |-> 0, d |-> 0].  A      *)
(* Python string is a sequence of one-character strings where it is        *)
(* parsed, and a sequence of tokens where it is only compared or searched  *)
(* for a word.  A content-field value is a record [w, t, n, s]: w is the   *)
(* wrapper ("bare": the value itself, "value": the dict {"value": v},      *)
(* "other": the dict {"text": v}, "empty": the dict {}), t the type of v   *)
(* ("none", "num", "str", "list"), n its number and s its string or list.  *)
(***************************************************************************)
EXTENDS Integers, Sequences, FiniteSets, TLC

VARIABLES
    \* --- review-score aggregation (openreview_client.py, parsing.py) ---
    s_pc,        \* the aggregators that have run on replies
    replies,     \* the list of replies of one note
    stats,       \* extract_scores_from_replies(replies)
    pstats,      \* compute_score_stats(replies)
    \* --- retry_with_backoff (openreview_client.py 48-65) ---
    r_pc,        \* "idle", "loop" (at the for), "returned", "raised"
    max_retries, \* argument
    base_delay,  \* argument
    func,        \* argument: the request the callable makes, [gen, variant]
    attempt,     \* the loop variable
    r_result,    \* the value returned
    trace,       \* what the call did so far: calls of func and sleeps, in order
    \* --- process-wide state ---
    client_cache,  \* _client_cache: the handle stored under 'client', or NoHandle
    handles_made,  \* how many connection handles were constructed so far
    resp_cache,    \* st.cache_data of fetch_submissions_with_reviews: venue_id -> entry
    now,           \* the clock, in hours
    last_good,     \* per venue_id, the last result the body computed without
                   \* an error and when, since the last clear of the cache
    \* --- fetch_submissions_with_reviews (openreview_client.py 138-265) ---
    f_pc,        \* where the call is
    venue_id,    \* argument
    client,      \* the handle create_client returned
    v1_client,   \* the handle the V1 fallback constructed
    notes,       \* the notes found so far
    pat_idx,     \* index in the loop over alternative / V1 patterns
    f_ret,       \* what the call gave its caller: [papers, status]
    net_log,     \* the requests this call made, in order
    \* --- load_data and the session (app.py) ---
    l_pc,            \* where load_data is
    filters,         \* argument: the filters of the sidebar
    venues_to_load,  \* the tasks
    task_idx,        \* index of the current task
    venue_ids,       \* the candidates of the current task
    vid_idx,         \* index of the current candidate
    all_papers,
    status_messages,
    load_log,        \* the fetches this load made, in order
    ss_papers,       \* st.session_state.papers
    data_loaded,     \* st.session_state.data_loaded
    load_status,     \* st.session_state.load_status
    current_page,    \* st.session_state.current_page
    \* --- one call of a function that has no state of its own ---
    c_pc,        \* "idle", "called" or "returned"
    c_fn,        \* the function called
    c_arg,       \* its arguments
    c_out,       \* what it returned
    \* --- the page (app.py main, ui_components.py) ---
    widgets,            \* the values of the sidebar widgets at the last run
    filtered_papers,    \* st.session_state.filtered_papers
    max_score_dataset,  \* st.session_state.max_score_dataset, when the key is set
    max_passed,         \* max_score_in_dataset at the last call of render_sidebar_filters
    papers_seen         \* st.session_state.papers at that call

scoreVars == <<s_pc, replies, stats, pstats>>
retryVars == <<r_pc, max_retries, base_delay, func, attempt, r_result, trace>>
procVars == <<client_cache, handles_made, resp_cache, now, last_good>>
fetchVars == <<f_pc, venue_id, client, v1_client, notes, pat_idx, f_ret, net_log>>
loadVars == <<l_pc, filters, venues_to_load, task_idx, venue_ids, vid_idx, all_papers,
              status_messages, load_log>>
sessionVars == <<ss_papers, data_loaded, load_status, current_page>>
callVars == <<c_pc, c_fn, c_arg, c_out>>
viewVars == <<widgets, filtered_papers, max_score_dataset, max_passed, papers_seen>>
vars == <<scoreVars, retryVars, procVars, fetchVars, loadVars, sessionVars, callVars,
          viewVars>>

-----------------------------------------------------------------------------
(* Bounds *)
MaxReplies == 2
MaxRetriesArg == 4
MaxBaseDelay == 3
MaxTime == 6
MaxHandles == 2
MaxTextLen == 5
MaxNumber == 7
MaxYears == 4
MaxSorted == 3

(* config.py *)
API_RETRY_MAX == 3
API_RETRY_DELAY_BASE == 2
CACHE_TTL_HOURS == 6

-----------------------------------------------------------------------------
(* Numbers *)
None == [n |-> 0, d |-> 0]

Abs(x) == IF x < 0 THEN -x ELSE x

RECURSIVE Gcd(_, _)
Gcd(a, b) == IF b = 0 THEN a ELSE Gcd(b, a % b)

Rat(a, b) ==
    LET g == Gcd(Abs(a), b)
    IN  [n |-> a \div g, d |-> b \div g]

Float(i) == Rat(i, 1)

RatLess(x, y) == x.n * y.d < y.n * x.d

RatAdd(x, y) == Rat(x.n * y.d + y.n * x.d, x.d * y.d)

RECURSIVE SumOf(_)
SumOf(xs) == IF xs = <<>> THEN Float(0) ELSE RatAdd(xs[1], SumOf(Tail(xs)))

RECURSIVE MaxOf(_)
MaxOf(xs) ==
    IF Len(xs) = 1 THEN xs[1]
    ELSE LET m == MaxOf(Tail(xs)) IN IF RatLess(xs[1], m) THEN m ELSE xs[1]

RECURSIVE MinOf(_)
MinOf(xs) ==
    IF Len(xs) = 1 THEN xs[1]
    ELSE LET m == MinOf(Tail(xs)) IN IF RatLess(m, xs[1]) THEN m ELSE xs[1]

\* sum(xs) / len(xs); the callers guard it with "if xs"
Mean(xs) == LET s == SumOf(xs) IN Rat(s.n, s.d * Len(xs))

-----------------------------------------------------------------------------
(* Strings and the regular expression of parse_score *)
Digits == {"0", "1", "2", "3", "4", "5", "6", "7", "8", "9"}

DigitVal(c) ==
    CASE c = "0" -> 0 [] c = "1" -> 1 [] c = "2" -> 2 [] c = "3" -> 3
      [] c = "4" -> 4 [] c = "5" -> 5 [] c = "6" -> 6 [] c = "7" -> 7
      [] c = "8" -> 8 [] c = "9" -> 9

IsSpace(c) == c \in {" "}

RECURSIVE LStrip(_)
LStrip(s) == IF s # <<>> /\ IsSpace(s[1]) THEN LStrip(Tail(s)) ELSE s

RECURSIVE RStrip(_)
RStrip(s) ==
    IF s # <<>> /\ IsSpace(s[Len(s)]) THEN RStrip(SubSeq(s, 1, Len(s) - 1)) ELSE s

Strip(s) == RStrip(LStrip(s))

\* the index after the longest run of digits of s that starts at i
RECURSIVE DigitsEnd(_, _)
DigitsEnd(s, i) ==
    IF i <= Len(s) /\ s[i] \in Digits THEN DigitsEnd(s, i + 1) ELSE i

\* the pattern without its sign: \d+\.?\d*
MatchesAtUnsigned(s, i) == s[i] \in Digits

\* whether -?\d+\.?\d* matches s at i
MatchesAt(s, i) ==
    \/ s[i] \in Digits
    \/ s[i] = "-" /\ i + 1 <= Len(s) /\ s[i + 1] \in Digits

\* the number written by the digits s[i..j-1], and 10^(j-i)
RECURSIVE DigitsNum(_, _, _)
DigitsNum(s, i, j) ==
    IF i >= j THEN 0 ELSE DigitsNum(s, i, j - 1) * 10 + DigitVal(s[j - 1])

RECURSIVE Pow10(_)
Pow10(k) == IF k = 0 THEN 1 ELSE 10 * Pow10(k - 1)

\* float(match.group()) of the match of -?\d+\.?\d* that starts at i
FloatOfMatch(s, i) ==
    LET neg  == s[i] = "-"
        a    == IF neg THEN i + 1 ELSE i
        b    == DigitsEnd(s, a)
        dot  == b <= Len(s) /\ s[b] = "."
        c    == IF dot THEN b + 1 ELSE b
        e    == DigitsEnd(s, c)
        whole == DigitsNum(s, a, b)
        frac  == DigitsNum(s, c, e)
        mag   == Rat(whole * Pow10(e - c) + frac, Pow10(e - c))
    IN  IF neg THEN Rat(-mag.n, mag.d) ELSE mag

\* re.search: the leftmost position where the pattern matches, 0 if none
RECURSIVE SearchFrom(_, _)
SearchFrom(s, i) ==
    IF i > Len(s) THEN 0
    ELSE IF MatchesAt(s, i) THEN i ELSE SearchFrom(s, i + 1)

-----------------------------------------------------------------------------
(* Content-field values *)
Bare(t, n, s) == [w |-> "bare", t |-> t, n |-> n, s |-> s]
VNone == Bare("none", None, <<>>)
VNum(i) == Bare("num", Float(i), <<>>)
VStr(s) == Bare("str", None, s)
VList(xs) == Bare("list", None, xs)
Wrapped(v) == [v EXCEPT !.w = "value"]
OtherDict(v) == [v EXCEPT !.w = "other"]
EmptyDict == [w |-> "empty", t |-> "none", n |-> None, s |-> <<>>]

IsDict(v) == v.w # "bare"

\* Python's truth value
Truthy(v) ==
    CASE v.w = "empty" -> FALSE
      [] v.w \in {"value", "other"} -> TRUE
      [] OTHER -> CASE v.t = "none" -> FALSE
                    [] v.t = "num" -> v.n.n # 0
                    [] OTHER -> v.s # <<>>

\* the default of d.get('value', '') whatever d holds
GetDefaultOnly(v) == VStr(<<>>)

\* d.get('value', '') of a dict d
GetValueOrEmpty(v) == IF v.w = "value" THEN [v EXCEPT !.w = "bare"] ELSE VStr(<<>>)

\* the digits of a natural number, as str() writes them
RECURSIVE NatStr(_)
NatStr(k) ==
    LET c == CASE k % 10 = 0 -> "0" [] k % 10 = 1 -> "1" [] k % 10 = 2 -> "2"
               [] k % 10 = 3 -> "3" [] k % 10 = 4 -> "4" [] k % 10 = 5 -> "5"
               [] k % 10 = 6 -> "6" [] k % 10 = 7 -> "7" [] k % 10 = 8 -> "8"
               [] OTHER -> "9"
    IN  IF k < 10 THEN <<c>> ELSE NatStr(k \div 10) \o <<c>>

\* repr() of a bare value inside a dict (integers only among the numbers)
ReprBare(v) ==
    CASE v.t = "none" -> <<"N", "o", "n", "e">>
      [] v.t = "num" -> (IF v.n.n < 0 THEN <<"-">> ELSE <<>>) \o NatStr(Abs(v.n.n))
      [] OTHER -> <<"'">> \o v.s \o <<"'">>

\* str() of a value that is not a number and not None
StrOf(v) ==
    CASE v.w = "bare" -> v.s
      [] v.w = "empty" -> <<"{", "}">>
      [] v.w = "value" ->
           <<"{", "'", "v", "a", "l", "u", "e", "'", ":", " ">> \o ReprBare(v) \o <<"}">>
      [] OTHER ->
           <<"{", "'", "t", "e", "x", "t", "'", ":", " ">> \o ReprBare(v) \o <<"}">>

parse_score(text) ==
    IF text.w = "bare" /\ text.t = "none" THEN None
    ELSE IF text.w = "bare" /\ text.t = "num" THEN text.n
    ELSE LET text_str == Strip(StrOf(text))
             m == SearchFrom(text_str, 1)
         IN  IF text_str = <<>> THEN None
             ELSE IF m # 0 THEN FloatOfMatch(text_str, m) ELSE None

-----------------------------------------------------------------------------
(* Replies: [has_content, content], content a function from field names *)
REVIEW_INDICATOR_KEYS ==
    {"rating", "recommendation", "soundness", "contribution", "summary",
     "weaknesses", "strengths_and_weaknesses", "quality", "clarity",
     "significance", "originality", "confidence", "questions", "limitations",
     "Overall Recommendation", "overall_recommendation"}

SCORE_FIELD_NAMES ==
    <<"rating", "recommendation", "score", "soundness", "overall", "Overall",
      "Rating", "Recommendation", "Overall Recommendation",
      "overall_recommendation">>

CONFIDENCE_FIELD_NAMES == <<"confidence", "Confidence">>

\* reply.get('content', {})
ContentOf(reply) == IF reply.has_content THEN reply.content ELSE <<>>

\* content.get(key)
Get(content, key) == IF key \in DOMAIN content THEN content[key] ELSE VNone

\* Python's "a or b"
Or(a, b) == IF Truthy(a) THEN a ELSE b

\* the classifier with its earlier threshold of three keys
is_review_reply_three(reply) ==
    Cardinality(DOMAIN ContentOf(reply) \cap REVIEW_INDICATOR_KEYS) >= 3

is_review_reply(reply) ==
    LET content == ContentOf(reply)
    IN  IF DOMAIN content = {} THEN FALSE
        ELSE Cardinality(DOMAIN content \cap REVIEW_INDICATOR_KEYS) >= 1

\* lines 103-109: the rating a review's content holds
RatingOf(content) ==
    Or(Get(content, "rating"),
       Or(Get(content, "recommendation"),
          Or(Get(content, "score"),
             Or(Get(content, "Overall Recommendation"),
                Get(content, "overall_recommendation")))))

\* lines 110-115: the score appended for a rating, None if none is
ScoreOfRating(rating) ==
    IF Truthy(rating)
    THEN parse_score(IF IsDict(rating) THEN GetValueOrEmpty(rating) ELSE rating)
    ELSE None

\* lines 118-124: the confidence appended for a review, None if none is
ConfidenceOfContent(content) ==
    LET confidence == Get(content, "confidence")
    IN  IF Truthy(confidence)
        THEN parse_score(IF IsDict(confidence) THEN GetValueOrEmpty(confidence)
                         ELSE confidence)
        ELSE None

AppendIf(xs, x) == IF x # None THEN Append(xs, x) ELSE xs

\* StatsOf with the two counts confused
StatsOfMiscount(review_count, scores, confidences) ==
    [review_count |-> review_count,
     scored_review_count |-> review_count,
     scores |-> scores,
     confidences |-> confidences,
     max_score |-> IF scores # <<>> THEN MaxOf(scores) ELSE None,
     min_score |-> IF scores # <<>> THEN MinOf(scores) ELSE None,
     avg_score |-> IF scores # <<>> THEN Mean(scores) ELSE None,
     avg_confidence |-> IF confidences # <<>> THEN Mean(confidences) ELSE None]

\* StatsOf with 0 standing for "no score"
StatsOfSentinel(review_count, scores, confidences) ==
    [review_count |-> review_count,
     scored_review_count |-> Len(scores),
     scores |-> scores,
     confidences |-> confidences,
     max_score |-> IF scores # <<>> THEN MaxOf(scores) ELSE Float(0),
     min_score |-> IF scores # <<>> THEN MinOf(scores) ELSE Float(0),
     avg_score |-> IF scores # <<>> THEN Mean(scores) ELSE Float(0),
     avg_confidence |-> IF confidences # <<>> THEN Mean(confidences) ELSE Float(0)]

\* the dict both aggregators return
StatsOf(review_count, scores, confidences) ==
    [review_count |-> review_count,
     scored_review_count |-> Len(scores),
     scores |-> scores,
     confidences |-> confidences,
     max_score |-> IF scores # <<>> THEN MaxOf(scores) ELSE None,
     min_score |-> IF scores # <<>> THEN MinOf(scores) ELSE None,
     avg_score |-> IF scores # <<>> THEN Mean(scores) ELSE None,
     avg_confidence |-> IF confidences # <<>> THEN Mean(confidences) ELSE None]

\* the loop of extract_scores_from_replies from reply i on
RECURSIVE ExtractLoop(_, _, _, _, _)
ExtractLoop(rs, i, review_count, scores, confidences) ==
    IF i > Len(rs) THEN StatsOf(review_count, scores, confidences)
    ELSE IF ~is_review_reply(rs[i])
         THEN ExtractLoop(rs, i + 1, review_count, scores, confidences)
         ELSE LET content == ContentOf(rs[i])
              IN  ExtractLoop(rs, i + 1, review_count + 1,
                              AppendIf(scores, ScoreOfRating(RatingOf(content))),
                              AppendIf(confidences, ConfidenceOfContent(content)))

extract_scores_from_replies(rs) == ExtractLoop(rs, 1, 0, <<>>, <<>>)

\* the unwrap and parse of one field of extract_review_scores
ParseField(value) ==
    parse_score(IF value.w = "value" THEN [value EXCEPT !.w = "bare"] ELSE value)

\* the first parsed value among the fields names[i..] present in content
RECURSIVE FirstParsed(_, _, _)
FirstParsed(content, names, i) ==
    IF i > Len(names) THEN None
    ELSE IF names[i] \in DOMAIN content /\ ParseField(content[names[i]]) # None
         THEN ParseField(content[names[i]])
         ELSE FirstParsed(content, names, i + 1)

extract_review_scores(review) ==
    LET content == ContentOf(review)
    IN  [score |-> FirstParsed(content, SCORE_FIELD_NAMES, 1),
         confidence |-> FirstParsed(content, CONFIDENCE_FIELD_NAMES, 1)]

RECURSIVE ComputeLoop(_, _, _, _)
ComputeLoop(reviews, i, scores, confidences) ==
    IF i > Len(reviews) THEN StatsOf(Len(reviews), scores, confidences)
    ELSE LET sc == extract_review_scores(reviews[i])
         IN  ComputeLoop(reviews, i + 1, AppendIf(scores, sc.score),
                         AppendIf(confidences, sc.confidence))

compute_score_stats(reviews) == ComputeLoop(reviews, 1, <<>>, <<>>)

-----------------------------------------------------------------------------
(* The replies the aggregators are run on *)
StrongAccept ==
    <<"6", ":", " ", "S", "t", "r", "o", "n", "g", " ", "A", "c", "c", "e", "p", "t">>

RatingValues ==
    {VNum(0), VStr(<<"0">>), Wrapped(VNum(0)), Wrapped(VStr(<<"0">>)),
     Wrapped(VStr(StrongAccept)), VStr(<<"A", "c", "c", "e", "p", "t">>)}

ConfidenceValues == {Wrapped(VStr(<<"4">>))}

SummaryValues == {VStr(<<"o", "k">>)}

FieldValues(k) ==
    CASE k = "rating" -> RatingValues
      [] k = "confidence" -> ConfidenceValues
      [] OTHER -> SummaryValues

ReplyFields == {"rating", "confidence", "summary"}

Contents ==
    UNION {{f \in [K -> UNION {FieldValues(k) : k \in K}] :
               \A k \in K : f[k] \in FieldValues(k)} : K \in SUBSET ReplyFields}

Replies ==
    {[has_content |-> TRUE, content |-> c] : c \in Contents}
        \cup {[has_content |-> FALSE, content |-> <<>>]}

ReplyLists == UNION {[1..k -> Replies] : k \in 0..MaxReplies}

-----------------------------------------------------------------------------
(* Notes of the remote API and the papers built from them.  Identifiers,   *)
(* paths and URLs are sequences of tokens (strings that are never split);  *)
(* "x in s" and s.startswith(x) are read on tokens.                        *)

\* note.content for a V2 note (every field wrapped in {'value': ...})
ContentA ==
    [title |-> Wrapped(VStr(<<"T1">>)),
     abstract |-> Wrapped(VStr(<<"about", " ", "T1">>)),
     authors |-> Wrapped(VList(<<"Ann", "Bo">>)),
     keywords |-> Wrapped(VList(<<"nlp">>)),
     pdf |-> Wrapped(VStr(<<"/pdf/", "a1">>))]

ReviewA ==
    [has_content |-> TRUE,
     content |-> [rating |-> Wrapped(VStr(StrongAccept)),
                  confidence |-> Wrapped(VStr(<<"4">>))]]

CommentA == [has_content |-> TRUE, content |-> [comment |-> Wrapped(VStr(<<"thanks">>))]]

NoteA ==
    [id |-> "a1", has_forum |-> TRUE, forum |-> "f1", has_content |-> TRUE,
     content |-> ContentA, has_details |-> TRUE, replies |-> <<ReviewA, CommentA>>]

\* a V1 note: bare fields, no title, an absolute pdf link, no details
ContentB ==
    ("TL;DR" :> VStr(<<"short">>)) @@
    [abstract |-> VStr(<<"about", " ", "B">>),
     pdf |-> VStr(<<"http", "://ex.org/b2.pdf">>)]

NoteB ==
    [id |-> "b2", has_forum |-> FALSE, forum |-> "", has_content |-> TRUE,
     content |-> ContentB, has_details |-> FALSE, replies |-> <<>>]

\* what one request for the notes of an invitation may return
NoteLists == {<<>>, <<NoteA>>, <<NoteB, NoteA>>}

\* get_val of lines 224-228
get_val(content, key) ==
    LET val == Get(content, key)
    IN  IF val.w = "value" THEN [val EXCEPT !.w = "bare"] ELSE val

BASE_URL == <<"https://openreview.net">>

\* lines 254-257
PdfUrl(pdf) ==
    IF Truthy(pdf) /\ ~(pdf.s[1] = "http") THEN BASE_URL \o pdf.s ELSE pdf.s

\* lines 222-259: the paper of one note
NormalizeNote(venue_id_, note) ==
    LET content == IF note.has_content THEN note.content ELSE <<>>
        reps == IF note.has_details THEN note.replies ELSE <<>>
        score_stats == extract_scores_from_replies(reps)
        forum == IF note.has_forum THEN note.forum ELSE note.id
        pdf == Or(get_val(content, "pdf"), VStr(<<>>))
    IN  [id |-> note.id,
         forum |-> forum,
         title |-> Or(get_val(content, "title"), VStr(<<"Untitled">>)),
         abstract |-> Or(get_val(content, "abstract"), VStr(<<>>)),
         authors |-> Or(get_val(content, "authors"), VList(<<>>)),
         keywords |-> Or(get_val(content, "keywords"), VList(<<>>)),
         tldr |-> Or(get_val(content, "TL;DR"),
                     Or(get_val(content, "tldr"), VStr(<<>>))),
         pdf |-> pdf,
         venue_id |-> venue_id_,
         review_count |-> score_stats.review_count,
         scored_review_count |-> score_stats.scored_review_count,
         scores |-> score_stats.scores,
         confidences |-> score_stats.confidences,
         max_score |-> score_stats.max_score,
         min_score |-> score_stats.min_score,
         avg_score |-> score_stats.avg_score,
         avg_confidence |-> score_stats.avg_confidence,
         openreview_url |-> BASE_URL \o <<"/forum?id=", forum>>,
         pdf_url |-> PdfUrl(pdf)]

\* lines 221-259: the papers of the notes found
Normalize(venue_id_, ns) == [i \in 1..Len(ns) |-> NormalizeNote(venue_id_, ns[i])]

\* p.get("scored_review_count", 0)
ScoredCountOf(p) ==
    IF "scored_review_count" \in DOMAIN p THEN p.scored_review_count ELSE 0

\* sum(1 for p in papers if p.get("scored_review_count", 0) > 0)
ReviewedCount(ps) == Cardinality({i \in DOMAIN ps : ScoredCountOf(ps[i]) > 0})

\* the status strings: "Fetched N papers (M with reviews)", "Error: ...", ""
FetchedStatus(ps) == [kind |-> "Fetched", total |-> Len(ps), reviewed |-> ReviewedCount(ps)]
ErrorStatus == [kind |-> "Error", total |-> 0, reviewed |-> 0]
EmptyStatus == [kind |-> "", total |-> 0, reviewed |-> 0]

-----------------------------------------------------------------------------
(* config.py: the venue table and the candidate identifiers *)

LowerAlphabet == <<"a", "c", "e", "i", "l", "m", "n", "p", "r", "s", "u">>
UpperAlphabet == <<"A", "C", "E", "I", "L", "M", "N", "P", "R", "S", "U">>

UpperChar(c) ==
    IF \E i \in DOMAIN LowerAlphabet : LowerAlphabet[i] = c
    THEN UpperAlphabet[CHOOSE i \in DOMAIN LowerAlphabet : LowerAlphabet[i] = c]
    ELSE c

LowerChar(c) ==
    IF \E i \in DOMAIN UpperAlphabet : UpperAlphabet[i] = c
    THEN LowerAlphabet[CHOOSE i \in DOMAIN UpperAlphabet : UpperAlphabet[i] = c]
    ELSE c

Upper(s) == [i \in DOMAIN s |-> UpperChar(s[i])]
Lower(s) == [i \in DOMAIN s |-> LowerChar(s[i])]

\* VENUE_MAPPINGS, in declaration order.  key is the name as one token,
\* name the same name as characters.
VENUE_MAPPINGS ==
    << [key |-> "ICLR", name |-> <<"I", "C", "L", "R">>,
        aliases |-> << <<"i", "c", "l", "r">> >>,
        patterns |-> << <<"ICLR", ".cc/", "{year}", "/Conference">> >>,
        source |-> ""],
       [key |-> "NeurIPS", name |-> <<"N", "e", "u", "r", "I", "P", "S">>,
        aliases |-> << <<"n", "e", "u", "r", "i", "p", "s">>, <<"n", "i", "p", "s">>,
                       <<"N", "I", "P", "S">> >>,
        patterns |-> << <<"NeurIPS", ".cc/", "{year}", "/Conference">>,
                        <<"NIPS", ".cc/", "{year}", "/Conference">> >>,
        source |-> ""],
       [key |-> "ICML", name |-> <<"I", "C", "M", "L">>,
        aliases |-> << <<"i", "c", "m", "l">> >>,
        patterns |-> << <<"ICML", ".cc/", "{year}", "/Conference">> >>,
        source |-> ""],
       [key |-> "AAAI", name |-> <<"A", "A", "A", "I">>,
        aliases |-> << <<"a", "a", "a", "i">> >>,
        patterns |-> << <<"AAAI", ".org/", "{year}", "/Conference">> >>,
        source |-> "web"] >>

\* str(year), as one token
YearToken(y) ==
    CASE y = 2023 -> "2023" [] y = 2024 -> "2024" [] y = 2025 -> "2025"
      [] y = 2026 -> "2026" [] y = 2027 -> "2027" [] OTHER -> "year"

YearTokens == {"2023", "2024", "2025", "2026", "2027"}

\* int(year) of a year token
YearOfToken(tok) ==
    CASE tok = "2023" -> 2023 [] tok = "2024" -> 2024 [] tok = "2025" -> 2025
      [] tok = "2026" -> 2026 [] OTHER -> 2027

\* p.format(year=year)
Format(p, y) == [i \in DOMAIN p |-> IF p[i] = "{year}" THEN YearToken(y) ELSE p[i]]

\* the test of line 108 with the letter case kept
VenueMatchesExact(cfg, venue_name) ==
    \/ Strip(venue_name) = cfg.name
    \/ \E i \in DOMAIN cfg.aliases : venue_name = cfg.aliases[i]

\* line 108: the test that selects a venue's configuration
VenueMatches(cfg, venue_name) ==
    \/ Strip(Upper(venue_name)) = Upper(cfg.name)
    \/ \E i \in DOMAIN cfg.aliases : Lower(venue_name) = Lower(cfg.aliases[i])

\* lines 107-112 from the i-th configuration on
RECURSIVE CandidatesFrom(_, _, _)
CandidatesFrom(i, venue_name, y) ==
    IF i > Len(VENUE_MAPPINGS) THEN <<venue_name>>
    ELSE IF VenueMatches(VENUE_MAPPINGS[i], venue_name)
         THEN [j \in DOMAIN VENUE_MAPPINGS[i].patterns |->
                   Format(VENUE_MAPPINGS[i].patterns[j], y)]
         ELSE CandidatesFrom(i + 1, venue_name, y)

\* get_venue_id_candidates with nothing for a name it does not know
get_candidates_known_only(venue_name, y) ==
    IF \E i \in DOMAIN VENUE_MAPPINGS : VenueMatches(VENUE_MAPPINGS[i], venue_name)
    THEN CandidatesFrom(1, venue_name, y)
    ELSE <<>>

get_venue_id_candidates(venue_name, y) == CandidatesFrom(1, venue_name, y)

\* "x in s" for a word x and an identifier s
Contains(s, x) == \E i \in DOMAIN s : s[i] = x

\* openreview_client.py 147-150: the venue is served by the web scraper
IsWebVenue(vid) ==
    \E i \in DOMAIN VENUE_MAPPINGS :
        VENUE_MAPPINGS[i].source = "web" /\ Contains(vid, VENUE_MAPPINGS[i].key)

-----------------------------------------------------------------------------
(* retry_with_backoff *)

\* the requests a callable passed to retry_with_backoff makes: through a
\* handle of generation gen, for the invitation <venue_id>/-/<variant>
Variants == <<"Submission", "Blind_Submission", "Paper">>
Funcs == [gen : {"v2", "v1"}, variant : {Variants[i] : i \in DOMAIN Variants}]
NoFunc == [gen |-> "", variant |-> ""]

CallEv(ok, v) == [k |-> "call", ok |-> ok, v |-> v, d |-> 0]
SleepEv(d) == [k |-> "sleep", ok |-> FALSE, v |-> <<>>, d |-> d]

RECURSIVE Pow2(_)
Pow2(k) == IF k = 0 THEN 1 ELSE 2 * Pow2(k - 1)

\* the mutants of the two definitions below
InRangeOneMore(attempt_, max_retries_) == attempt_ <= max_retries_
DelayLinear(base_delay_, attempt_) == base_delay_ * 2 * attempt_
SleepsAfterEveryFailure(attempt_, max_retries_) == TRUE

\* line 56: for attempt in range(max_retries)
InRange(attempt_, max_retries_) == attempt_ < max_retries_

\* line 62: delay = base_delay * (2 ** attempt)
Delay(base_delay_, attempt_) == base_delay_ * Pow2(attempt_)

\* line 61: if attempt < max_retries - 1
SleepsAfter(attempt_, max_retries_) == attempt_ < max_retries_ - 1

RetryIdle ==
    /\ r_pc = "idle"
    /\ max_retries = 0
    /\ base_delay = 0
    /\ func = NoFunc
    /\ attempt = 0
    /\ r_result = <<>>
    /\ trace = <<>>

\* the call retry_with_backoff(f, m, b)
RetryEnter(f, m, b) ==
    /\ r_pc' = "loop"
    /\ max_retries' = m
    /\ base_delay' = b
    /\ func' = f
    /\ attempt' = 0
    /\ r_result' = <<>>
    /\ trace' = <<>>

\* the caller has taken the result: the frame is gone
RetryLeave ==
    /\ r_pc' = "idle"
    /\ max_retries' = 0
    /\ base_delay' = 0
    /\ func' = NoFunc
    /\ attempt' = 0
    /\ r_result' = <<>>
    /\ trace' = <<>>

-----------------------------------------------------------------------------
(* web_scraper.py *)

WebItem1 ==
    [has_id |-> TRUE, id |-> "w1", has_title |-> TRUE, title |-> <<"W1">>,
     abstract |-> <<"about", " ", "W1">>, author |-> <<"Ann", ";", " ", "Cy">>,
     pdf |-> <<"http", "://aaai.org/w1.pdf">>]

WebItem2 ==
    [has_id |-> FALSE, id |-> "", has_title |-> FALSE, title |-> <<>>,
     abstract |-> <<>>, author |-> <<>>, pdf |-> <<>>]

\* what the request of lines 17-25 gives: a 404, another error status
\* (raise_for_status raises), a timeout or a connection failure (requests.get
\* raises), a body that is not JSON (response.json raises), or the JSON array
WebResponses ==
    {[status |-> "404", data |-> <<>>],
     [status |-> "http_error", data |-> <<>>],
     [status |-> "timeout", data |-> <<>>],
     [status |-> "connection_error", data |-> <<>>],
     [status |-> "bad_json", data |-> <<>>],
     [status |-> "ok", data |-> <<>>],
     [status |-> "ok", data |-> <<WebItem1, WebItem2>>]}

\* lines 17-25: the statements of the try block that raise for a response
RaisesInTry(resp) ==
    resp.status \in {"http_error", "timeout", "connection_error", "bad_json"}

\* [a.strip() for a in authors_str.split(';')] if authors_str else []
RECURSIVE SplitAuthors(_)
SplitAuthors(s) ==
    IF s = <<>> THEN <<>>
    ELSE IF s[1] \in {";", " "} THEN SplitAuthors(Tail(s))
         ELSE <<s[1]>> \o SplitAuthors(Tail(s))

\* lines 28-57: the paper of one item
WebPaper(item, year) ==
    [id |-> IF item.has_id THEN item.id ELSE "unknown",
     forum |-> IF item.has_id THEN item.id ELSE "unknown",
     title |-> IF item.has_title THEN VStr(item.title) ELSE VStr(<<"Untitled">>),
     abstract |-> VStr(item.abstract),
     authors |-> VList(SplitAuthors(item.author)),
     keywords |-> VList(<<>>),
     tldr |-> VStr(<<>>),
     pdf |-> VStr(item.pdf),
     venue |-> <<"AAAI", " ", year>>,
     venue_id |-> <<"AAAI", ".org/", year, "/Conference">>,
     year |-> YearOfToken(year),
     avg_score |-> None,
     max_score |-> None,
     min_score |-> None,
     scored_review_count |-> 0,
     score_distribution |-> EmptyDict]

\* fetch_aaai_from_github giving a placeholder entry when the request fails
fetch_aaai_placeholder(year, resp) ==
    IF resp.status = "404" THEN <<>>
    ELSE IF RaisesInTry(resp) THEN <<WebPaper(WebItem2, year)>>
    ELSE [i \in DOMAIN resp.data |-> WebPaper(resp.data[i], year)]

\* fetch_aaai_from_github(year) when the request gives resp: [] for a 404
\* (lines 19-21) and from the except branch (lines 62-64)
fetch_aaai_from_github(year, resp) ==
    IF resp.status = "404" THEN <<>>
    ELSE IF RaisesInTry(resp) THEN <<>>
    ELSE [i \in DOMAIN resp.data |-> WebPaper(resp.data[i], year)]

\* re.search(r'20\d{2}', venue_id): the index of the first year, 0 if none
RECURSIVE YearSearch(_, _)
YearSearch(vid, i) ==
    IF i > Len(vid) THEN 0
    ELSE IF vid[i] \in YearTokens THEN i ELSE YearSearch(vid, i + 1)

\* scrape_venue(venue_id) when requests.get gives resp
scrape_venue(vid, resp) ==
    IF Contains(vid, "AAAI") /\ YearSearch(vid, 1) # 0
    THEN fetch_aaai_from_github(vid[YearSearch(vid, 1)], resp)
    ELSE <<>>

\* lines 57-58: func() returns; retry_with_backoff returns its value
RetryCallReturns ==
    /\ r_pc = "loop"
    /\ InRange(attempt, max_retries)
    /\ \E v \in NoteLists :
          /\ r_result' = v
          /\ trace' = Append(trace, CallEv(TRUE, v))
    /\ r_pc' = "returned"
    /\ UNCHANGED <<max_retries, base_delay, func, attempt>>
    /\ UNCHANGED <<callVars, viewVars, scoreVars, procVars, fetchVars, loadVars, sessionVars>>

\* lines 59-63: func() raises; sleep unless this was the last attempt
RetryCallRaises ==
    /\ r_pc = "loop"
    /\ InRange(attempt, max_retries)
    /\ trace' = trace \o <<CallEv(FALSE, <<>>)>> \o
                   (IF SleepsAfter(attempt, max_retries)
                    THEN <<SleepEv(Delay(base_delay, attempt))>> ELSE <<>>)
    /\ attempt' = attempt + 1
    /\ UNCHANGED <<r_pc, max_retries, base_delay, func, r_result>>
    /\ UNCHANGED <<callVars, viewVars, scoreVars, procVars, fetchVars, loadVars, sessionVars>>

\* line 65: the loop is over; raise OpenReviewClientError
RetryExhausted ==
    /\ r_pc = "loop"
    /\ ~InRange(attempt, max_retries)
    /\ r_pc' = "raised"
    /\ UNCHANGED <<max_retries, base_delay, func, attempt, r_result, trace>>
    /\ UNCHANGED <<callVars, viewVars, scoreVars, procVars, fetchVars, loadVars, sessionVars>>

RetryNext == RetryCallReturns \/ RetryCallRaises \/ RetryExhausted

-----------------------------------------------------------------------------
(* The client-handle cache, the response cache and                         *)
(* fetch_submissions_with_reviews                                          *)

NoHandle == [gen |-> "", n |-> 0]
NoRet == [papers |-> <<>>, status |-> EmptyStatus]

Min(a, b) == IF a < b THEN a ELSE b

\* a handle of generation gen is constructed
NewHandle(gen) == [gen |-> gen, n |-> Min(handles_made + 1, MaxHandles)]

\* the time the decorator keeps an entry, in hours, with a wrong unit
CacheTtlWrongUnit == CACHE_TTL_HOURS \div 60

\* line 138: ttl=CACHE_TTL_HOURS * 3600 seconds, in hours
CacheTtl == (CACHE_TTL_HOURS * 3600) \div 3600

\* an entry made at time at is still served at time t
Fresh(at, t) == t - at < CacheTtl

Successful(ret) == ret.status.kind # "Error"

\* a decorator that stores only the values that are not errors
StoreOnlySuccessful(ret) ==
    /\ resp_cache' = IF Successful(ret)
                     THEN (venue_id :> [at |-> now, papers |-> ret.papers,
                                        status |-> ret.status]) @@ resp_cache
                     ELSE resp_cache
    /\ last_good' = IF Successful(ret)
                    THEN (venue_id :> [at |-> now, papers |-> ret.papers,
                                       status |-> ret.status]) @@ last_good
                    ELSE last_good

\* the decorator stores the value under the argument; last_good follows
StoreReturn(ret) ==
    /\ resp_cache' = (venue_id :> [at |-> now, papers |-> ret.papers,
                                   status |-> ret.status]) @@ resp_cache
    /\ last_good' = IF Successful(ret)
                    THEN (venue_id :> [at |-> now, papers |-> ret.papers,
                                       status |-> ret.status]) @@ last_good
                    ELSE last_good

FetchIdle ==
    /\ f_pc = "idle"
    /\ venue_id = <<>>
    /\ client = NoHandle
    /\ v1_client = NoHandle
    /\ notes = <<>>
    /\ pat_idx = 0
    /\ f_ret = NoRet
    /\ net_log = <<>>

\* the call fetch_submissions_with_reviews(vid)
FetchEnter(vid) ==
    /\ f_pc' = "lookup"
    /\ venue_id' = vid
    /\ client' = NoHandle
    /\ v1_client' = NoHandle
    /\ notes' = <<>>
    /\ pat_idx' = 0
    /\ f_ret' = NoRet
    /\ net_log' = <<>>

\* the caller has taken the result (or the exception): the frame is gone
FetchLeave ==
    /\ f_pc' = "idle"
    /\ venue_id' = <<>>
    /\ client' = NoHandle
    /\ v1_client' = NoHandle
    /\ notes' = <<>>
    /\ pat_idx' = 0
    /\ f_ret' = NoRet
    /\ net_log' = <<>>

LogEntry(phase, h, variant, ok, ns) ==
    [phase |-> phase, gen |-> h.gen, handle |-> h.n, variant |-> variant,
     ok |-> ok, notes |-> ns]

\* line 138: the decorator finds a fresh entry and returns it
CacheHit ==
    /\ f_pc = "lookup"
    /\ venue_id \in DOMAIN resp_cache
    /\ Fresh(resp_cache[venue_id].at, now)
    /\ f_ret' = [papers |-> resp_cache[venue_id].papers,
                 status |-> resp_cache[venue_id].status]
    /\ f_pc' = "returned"
    /\ UNCHANGED <<venue_id, client, v1_client, notes, pat_idx, net_log>>
    /\ UNCHANGED <<callVars, viewVars, scoreVars, retryVars, procVars, loadVars, sessionVars>>

\* line 138: no fresh entry; the body runs
CacheMiss ==
    /\ f_pc = "lookup"
    /\ ~(venue_id \in DOMAIN resp_cache /\ Fresh(resp_cache[venue_id].at, now))
    /\ f_pc' = "body"
    /\ UNCHANGED <<venue_id, client, v1_client, notes, pat_idx, f_ret, net_log>>
    /\ UNCHANGED <<callVars, viewVars, scoreVars, retryVars, procVars, loadVars, sessionVars>>

\* lines 147-152: a web venue is served by scrape_venue, with status "";
\* scrape_venue makes its request when it finds a year in the venue ID
WebRoute ==
    /\ f_pc = "body"
    /\ IsWebVenue(venue_id)
    /\ \E resp \in WebResponses :
          LET ret == [papers |-> scrape_venue(venue_id, resp), status |-> EmptyStatus]
          IN  /\ f_ret' = ret
              /\ StoreReturn(ret)
              /\ net_log' = IF Contains(venue_id, "AAAI") /\ YearSearch(venue_id, 1) # 0
                            THEN Append(net_log, LogEntry("web", NoHandle, "",
                                                          resp.status = "ok", <<>>))
                            ELSE net_log
    /\ f_pc' = "returned"
    /\ UNCHANGED <<venue_id, client, v1_client, notes, pat_idx>>
    /\ UNCHANGED <<client_cache, handles_made, now>>
    /\ UNCHANGED <<callVars, viewVars, scoreVars, retryVars, loadVars, sessionVars>>

\* lines 159-164: the first request, under retry_with_backoff
StartSubmission(h) ==
    /\ client' = h
    /\ f_pc' = "submission"
    /\ RetryEnter([gen |-> h.gen, variant |-> "Submission"],
                  API_RETRY_MAX, API_RETRY_DELAY_BASE)
    /\ UNCHANGED <<venue_id, v1_client, notes, pat_idx, f_ret, net_log>>

\* lines 31-32: create_client finds the handle in _client_cache
CreateClientCached ==
    /\ f_pc = "body"
    /\ ~IsWebVenue(venue_id)
    /\ client_cache # NoHandle
    /\ StartSubmission(client_cache)
    /\ UNCHANGED <<callVars, viewVars, scoreVars, procVars, loadVars, sessionVars>>

\* lines 34-39: create_client constructs the primary (V2) handle
CreateClientV2 ==
    /\ f_pc = "body"
    /\ ~IsWebVenue(venue_id)
    /\ client_cache = NoHandle
    /\ client_cache' = NewHandle("v2")
    /\ handles_made' = Min(handles_made + 1, MaxHandles)
    /\ StartSubmission(NewHandle("v2"))
    /\ UNCHANGED <<resp_cache, now, last_good>>
    /\ UNCHANGED <<callVars, viewVars, scoreVars, loadVars, sessionVars>>

\* lines 40-45: the V2 constructor raises; create_client constructs a V1 handle
CreateClientV1 ==
    /\ f_pc = "body"
    /\ ~IsWebVenue(venue_id)
    /\ client_cache = NoHandle
    /\ client_cache' = NewHandle("v1")
    /\ handles_made' = Min(handles_made + 1, MaxHandles)
    /\ StartSubmission(NewHandle("v1"))
    /\ UNCHANGED <<resp_cache, now, last_good>>
    /\ UNCHANGED <<callVars, viewVars, scoreVars, loadVars, sessionVars>>

\* lines 40-45 and 154: both constructors raise; line 154 is outside the
\* try, so the exception leaves fetch_submissions_with_reviews
CreateClientRaises ==
    /\ f_pc = "body"
    /\ ~IsWebVenue(venue_id)
    /\ client_cache = NoHandle
    /\ f_pc' = "raised"
    /\ UNCHANGED <<venue_id, client, v1_client, notes, pat_idx, f_ret, net_log>>
    /\ UNCHANGED <<callVars, viewVars, scoreVars, retryVars, procVars, loadVars, sessionVars>>

\* the mutant of the definition below: the alternatives the other way round
AltPatternsSwapped == <<"Paper", "Blind_Submission">>

\* line 168: the alternative patterns
AltPatterns == <<"Blind_Submission", "Paper">>

\* lines 194-198
V1Patterns == <<"Submission", "Blind_Submission", "Paper">>

\* lines 166, 183: notes were found; neither the alternatives nor V1 are tried
GoNormalize ==
    /\ f_pc' = "normalize"
    /\ RetryLeave

\* lines 166-175: no notes under Submission; the first alternative is requested
StartAlternatives ==
    /\ f_pc' = "alt"
    /\ pat_idx' = 1
    /\ RetryEnter([gen |-> client.gen, variant |-> AltPatterns[1]],
                  API_RETRY_MAX, API_RETRY_DELAY_BASE)

\* lines 168-179, 183: the next alternative, or the V1 fallback after the last
NextAlternative ==
    IF pat_idx < Len(AltPatterns)
    THEN /\ pat_idx' = pat_idx + 1
         /\ f_pc' = "alt"
         /\ RetryEnter([gen |-> client.gen, variant |-> AltPatterns[pat_idx + 1]],
                       API_RETRY_MAX, API_RETRY_DELAY_BASE)
    ELSE /\ pat_idx' = 0
         /\ f_pc' = "v1"
         /\ RetryLeave

\* lines 159-166: the Submission request returned
SubmissionReturned ==
    /\ f_pc = "submission"
    /\ r_pc = "returned"
    /\ notes' = r_result
    /\ net_log' = Append(net_log, LogEntry("primary", client, "Submission", TRUE, r_result))
    /\ IF r_result # <<>>
       THEN GoNormalize /\ UNCHANGED pat_idx
       ELSE StartAlternatives
    /\ UNCHANGED <<venue_id, client, v1_client, f_ret>>
    /\ UNCHANGED <<callVars, viewVars, scoreVars, procVars, loadVars, sessionVars>>

\* lines 159-164, 264-265: the Submission request exhausted its retries; the
\* outer except returns an empty list and an error status
SubmissionRaised ==
    /\ f_pc = "submission"
    /\ r_pc = "raised"
    /\ net_log' = Append(net_log, LogEntry("primary", client, "Submission", FALSE, <<>>))
    /\ f_ret' = [papers |-> <<>>, status |-> ErrorStatus]
    /\ StoreReturn([papers |-> <<>>, status |-> ErrorStatus])
    /\ f_pc' = "returned"
    /\ RetryLeave
    /\ UNCHANGED <<venue_id, client, v1_client, notes, pat_idx>>
    /\ UNCHANGED <<client_cache, handles_made, now>>
    /\ UNCHANGED <<callVars, viewVars, scoreVars, loadVars, sessionVars>>

\* lines 170-177: the request for an alternative pattern returned
AltReturned ==
    /\ f_pc = "alt"
    /\ r_pc = "returned"
    /\ notes' = r_result
    /\ net_log' = Append(net_log,
                         LogEntry("primary", client, AltPatterns[pat_idx], TRUE, r_result))
    /\ IF r_result # <<>>
       THEN GoNormalize /\ UNCHANGED pat_idx
       ELSE NextAlternative
    /\ UNCHANGED <<venue_id, client, v1_client, f_ret>>
    /\ UNCHANGED <<callVars, viewVars, scoreVars, procVars, loadVars, sessionVars>>

\* lines 178-179: the request for an alternative pattern exhausted its retries
AltRaised ==
    /\ f_pc = "alt"
    /\ r_pc = "raised"
    /\ net_log' = Append(net_log,
                         LogEntry("primary", client, AltPatterns[pat_idx], FALSE, <<>>))
    /\ NextAlternative
    /\ UNCHANGED <<venue_id, client, v1_client, notes, f_ret>>
    /\ UNCHANGED <<callVars, viewVars, scoreVars, procVars, loadVars, sessionVars>>

\* lines 187-191: the V1 fallback constructs its own handle
V1ClientMade ==
    /\ f_pc = "v1"
    /\ v1_client' = NewHandle("v1")
    /\ handles_made' = Min(handles_made + 1, MaxHandles)
    /\ f_pc' = "v1loop"
    /\ pat_idx' = 1
    /\ UNCHANGED <<venue_id, client, notes, f_ret, net_log>>
    /\ UNCHANGED <<client_cache, resp_cache, now, last_good>>
    /\ UNCHANGED <<callVars, viewVars, scoreVars, retryVars, loadVars, sessionVars>>

\* lines 187-191, 218-219: the constructor raises; the fallback is given up
V1ClientRaises ==
    /\ f_pc = "v1"
    /\ f_pc' = "normalize"
    /\ UNCHANGED <<venue_id, client, v1_client, notes, pat_idx, f_ret, net_log>>
    /\ UNCHANGED <<callVars, viewVars, scoreVars, retryVars, procVars, loadVars, sessionVars>>

\* lines 200-217: after the request for V1 pattern pat_idx, which found
\* notes or not
AfterV1Request(found) ==
    IF found \/ pat_idx = Len(V1Patterns)
    THEN f_pc' = "normalize" /\ pat_idx' = 0
    ELSE f_pc' = "v1loop" /\ pat_idx' = pat_idx + 1

\* lines 203-214: a V1 request returns (iterget_notes or get_notes)
V1RequestReturns ==
    /\ f_pc = "v1loop"
    /\ \E v \in NoteLists :
          /\ notes' = v
          /\ net_log' = Append(net_log,
                               LogEntry("legacy", v1_client, V1Patterns[pat_idx], TRUE, v))
          /\ AfterV1Request(v # <<>>)
    /\ UNCHANGED <<venue_id, client, v1_client, f_ret>>
    /\ UNCHANGED <<callVars, viewVars, scoreVars, retryVars, procVars, loadVars, sessionVars>>

\* lines 215-217: a V1 request raises
V1RequestRaises ==
    /\ f_pc = "v1loop"
    /\ net_log' = Append(net_log,
                         LogEntry("legacy", v1_client, V1Patterns[pat_idx], FALSE, <<>>))
    /\ AfterV1Request(FALSE)
    /\ UNCHANGED <<venue_id, client, v1_client, notes, f_ret>>
    /\ UNCHANGED <<callVars, viewVars, scoreVars, retryVars, procVars, loadVars, sessionVars>>

\* lines 221-262: the papers of the notes and the status are returned
NormalizeAndReturn ==
    /\ f_pc = "normalize"
    /\ LET ps == Normalize(venue_id, notes)
           ret == [papers |-> ps, status |-> FetchedStatus(ps)]
       IN  /\ f_ret' = ret
           /\ StoreReturn(ret)
    /\ f_pc' = "returned"
    /\ UNCHANGED <<venue_id, client, v1_client, notes, pat_idx, net_log>>
    /\ UNCHANGED <<client_cache, handles_made, now>>
    /\ UNCHANGED <<callVars, viewVars, scoreVars, retryVars, loadVars, sessionVars>>

FetchSteps ==
    \/ CacheHit \/ CacheMiss \/ WebRoute
    \/ CreateClientV2 \/ CreateClientV1 \/ CreateClientRaises
    \/ SubmissionReturned \/ SubmissionRaised \/ AltReturned \/ AltRaised
    \/ V1ClientMade \/ V1ClientRaises \/ V1RequestReturns \/ V1RequestRaises
    \/ NormalizeAndReturn

FetchNext == FetchSteps \/ CreateClientCached

-----------------------------------------------------------------------------
(* parsing.py: the keyword filter, the score filter, the sort; app.py:     *)
(* apply_filters                                                           *)

\* "k in t" of Python strings
IsSub(k, t) == \E i \in 0..(Len(t) - Len(k)) : SubSeq(t, i + 1, i + Len(k)) = k

\* logic.upper()
LogicUpper(logic) ==
    CASE logic = "and" -> "AND" [] logic = "or" -> "OR" [] OTHER -> logic

\* parsing.py 127-151
match_keywords(text, keywords, logic) ==
    IF keywords = <<>> \/ text = <<>> THEN TRUE
    ELSE IF LogicUpper(logic) = "AND"
         THEN \A i \in DOMAIN keywords : IsSub(Lower(keywords[i]), Lower(text))
         ELSE \E i \in DOMAIN keywords : IsSub(Lower(keywords[i]), Lower(text))

\* lines 175-176: paper.get(key, "") or ""
TextOf(paper, key) ==
    IF key \in DOMAIN paper /\ Truthy(paper[key]) THEN paper[key].s ELSE <<>>

\* parsing.py 154-187
filter_paper_by_keywords(paper, keywords, field_scope, logic) ==
    IF keywords = <<>> THEN TRUE
    ELSE LET title == TextOf(paper, "title")
             abstract == TextOf(paper, "abstract")
         IN  CASE field_scope = "title" -> match_keywords(title, keywords, logic)
               [] field_scope = "abstract" -> match_keywords(abstract, keywords, logic)
               [] field_scope = "title_or_abstract" ->
                    match_keywords(title, keywords, logic)
                        \/ match_keywords(abstract, keywords, logic)
               [] field_scope = "title_and_abstract" ->
                    match_keywords(title, keywords, logic)
                        /\ match_keywords(abstract, keywords, logic)
               [] OTHER -> match_keywords(title \o <<" ">> \o abstract, keywords, logic)

\* paper.get(key) of a number: None when the key is missing
NumberOf(paper, key) == IF key \in DOMAIN paper THEN paper[key] ELSE None

\* parsing.py 190-235; the thresholds are numbers or None
filter_paper_by_scores(paper, min_avg_score, min_max_score, min_review_count, min_confidence) ==
    LET avg_score == NumberOf(paper, "avg_score")
        max_score == NumberOf(paper, "max_score")
        scored_count == Float(ScoredCountOf(paper))
        avg_confidence == NumberOf(paper, "avg_confidence")
    IN  /\ min_avg_score # None =>
              ~(avg_score = None \/ RatLess(avg_score, min_avg_score))
        /\ min_max_score # None =>
              ~(max_score = None \/ RatLess(max_score, min_max_score))
        /\ min_review_count # None => ~RatLess(scored_count, min_review_count)
        /\ min_confidence # None =>
              ~(avg_confidence = None \/ RatLess(avg_confidence, min_confidence))

\* the characters of the strings that are sorted, in the order of their codes
CharOrder ==
    <<" ", "-", ".", "0", "3">> \o UpperAlphabet \o LowerAlphabet

CharRank(c) == CHOOSE i \in DOMAIN CharOrder : CharOrder[i] = c

\* a < b of Python strings
RECURSIVE StrLess(_, _)
StrLess(a, b) ==
    IF b = <<>> THEN FALSE
    ELSE IF a = <<>> THEN TRUE
    ELSE IF a[1] = b[1] THEN StrLess(Tail(a), Tail(b))
    ELSE CharRank(a[1]) < CharRank(b[1])

\* a sort key (f, v): v is a number (k = "num"), float('inf') or a string
SortKey(f, k, n, s) == [f |-> f, k |-> k, n |-> n, s |-> s]

\* the fields that hold integers, and the one that holds a string
IntegerFields == {"scored_review_count", "review_count", "year"}
StringFields == {"title"}

\* parsing.py 305-312
get_sort_key(paper, sort_by, ascending) ==
    IF sort_by \notin DOMAIN paper
           \/ (sort_by \notin IntegerFields \cup StringFields /\ paper[sort_by] = None)
    THEN IF ~ascending THEN SortKey(1, "num", Float(0), <<>>)
         ELSE SortKey(0, "inf", None, <<>>)
    ELSE IF sort_by \in StringFields THEN SortKey(0, "str", None, Lower(paper[sort_by].s))
    ELSE IF sort_by \in IntegerFields THEN SortKey(0, "num", Float(paper[sort_by]), <<>>)
    ELSE SortKey(0, "num", paper[sort_by], <<>>)

\* a < b of two keys (tuples are compared element by element)
KeyLess(a, b) ==
    \/ a.f < b.f
    \/ /\ a.f = b.f
       /\ CASE a.k = "inf" -> FALSE
            [] b.k = "inf" -> TRUE
            [] a.k = "str" -> StrLess(a.s, b.s)
            [] OTHER -> RatLess(a.n, b.n)

\* line 314: sorted(papers, key=get_sort_key, reverse=not ascending).  The
\* sort is stable, also when reversed: of two papers the one with the key
\* that comes first stands first, and of two with equal keys the one that
\* stood first.
sort_papers(papers, sort_by, ascending) ==
    LET key == [i \in DOMAIN papers |-> get_sort_key(papers[i], sort_by, ascending)]
        first(i, j) == IF ascending THEN KeyLess(key[i], key[j])
                       ELSE KeyLess(key[j], key[i])
        before(i, j) == first(i, j) \/ (~first(j, i) /\ i < j)
        rank == [i \in DOMAIN papers |->
                    1 + Cardinality({j \in DOMAIN papers : before(j, i)})]
    IN  [r \in DOMAIN papers |-> papers[CHOOSE i \in DOMAIN papers : rank[i] = r]]

\* app.py 193-231; fs are the values of the widgets
apply_filters(papers, fs) ==
    LET keep(paper) ==
            /\ ~(fs.only_reviewed /\ ScoredCountOf(paper) = 0)
            /\ filter_paper_by_keywords(paper, fs.keywords, fs.field_scope,
                                        fs.keyword_logic)
            /\ filter_paper_by_scores(paper, fs.min_avg_score, fs.min_max_score,
                                      fs.min_review_count, fs.min_confidence)
    IN  sort_papers(SelectSeq(papers, keep), fs.sort_by, FALSE)

-----------------------------------------------------------------------------
(* Single calls of parse_score, get_venue_id_candidates, scrape_venue,     *)
(* sort_papers and filter_paper_by_keywords                                *)

NoArg == [text |-> VNone, venue_name |-> <<>>, year |-> 0, venue_id |-> <<>>,
          resp |-> [status |-> "", data |-> <<>>],
          papers |-> <<>>, sort_by |-> "", ascending |-> FALSE,
          paper |-> <<>>, keywords |-> <<>>, field_scope |-> "", logic |-> ""]

CallIdle ==
    /\ c_pc = "idle"
    /\ c_fn = ""
    /\ c_arg = NoArg
    /\ c_out = <<>>

\* the strings of length at most n over the characters cs
RECURSIVE StringsUpTo(_, _)
StringsUpTo(cs, n) ==
    IF n = 0 THEN {<<>>}
    ELSE StringsUpTo(cs, n - 1) \cup
         {Append(s, c) : s \in {t \in StringsUpTo(cs, n - 1) : Len(t) = n - 1}, c \in cs}

TextChars == {"-", ".", "0", "3", "a", " "}

\* the values parse_score is called with: None, numbers, strings
Texts ==
    {VNone} \cup {VNum(i) : i \in -1..MaxNumber}
        \cup {Bare("num", Rat(7, 2), <<>>)}
        \cup {VStr(s) : s \in StringsUpTo(TextChars, MaxTextLen)}

\* a name in every letter case
RECURSIVE CaseVariants(_)
CaseVariants(s) ==
    IF s = <<>> THEN {<<>>}
    ELSE {<<c>> \o t : c \in {LowerChar(s[1]), UpperChar(s[1])},
                       t \in CaseVariants(Tail(s))}

\* the configured names and aliases in every letter case, and names that
\* match no configuration
VenueNames ==
    UNION {CaseVariants(VENUE_MAPPINGS[i].name) : i \in DOMAIN VENUE_MAPPINGS}
        \cup UNION {UNION {CaseVariants(VENUE_MAPPINGS[i].aliases[j]) :
                               j \in DOMAIN VENUE_MAPPINGS[i].aliases} :
                        i \in DOMAIN VENUE_MAPPINGS}
        \cup {<<>>, <<"C", "V", "P", "R">>, <<"n", "i", "p">>, <<" ", "n", "i", "p", "s">>,
              <<" ", "i", "c", "l", "r">>}

CallYears == 2023..(2023 + MaxYears - 1)

\* venue IDs given to scrape_venue: of AAAI, with no year, not of AAAI
ScrapedIds ==
    {<<"AAAI", ".org/", "2025", "/Conference">>,
     <<"AAAI", ".org/", "2024", "/Conference">>,
     <<"AAAI", ".org/", "/Conference">>,
     <<"ICLR", ".cc/", "2024", "/Conference">>}

\* the papers given to sort_papers: the i-th has the id i, an average score
\* or None, and a title
SortedPapers(i) ==
    {[id |-> i, avg_score |-> a, title |-> VStr(t)] :
        a \in {None, Float(3), Float(5)}, t \in {<<"a", "n">>, <<"C">>}}

RECURSIVE SortedLists(_)
SortedLists(n) ==
    IF n = 0 THEN {<<>>}
    ELSE SortedLists(n - 1) \cup
         {Append(ps, p) : ps \in {l \in SortedLists(n - 1) : Len(l) = n - 1},
                          p \in SortedPapers(n)}

\* the papers given to filter_paper_by_keywords: title and abstract are a
\* string, the empty string or None
ScopedTexts ==
    {VNone, VStr(<<>>), VStr(<<"a", "n">>), VStr(<<"A", "N", " ", "c">>)}

KeywordPapers == {[title |-> t, abstract |-> a] : t \in ScopedTexts, a \in ScopedTexts}

KeywordLists ==
    {<<>>, << <<"a">> >>, << <<"N">> >>, << <<"a", "n">>, <<"c">> >>, << <<"u">> >>}

FieldScopes == {"title", "abstract", "title_or_abstract", "title_and_abstract", "all"}

Logics == {"OR", "AND", "and"}

CallsOf(fn) ==
    CASE fn = "parse_score" -> {[NoArg EXCEPT !.text = t] : t \in Texts}
      [] fn = "get_venue_id_candidates" ->
           {[NoArg EXCEPT !.venue_name = v, !.year = y] : v \in VenueNames, y \in CallYears}
      [] fn = "sort_papers" ->
           {[NoArg EXCEPT !.papers = ps, !.sort_by = k, !.ascending = a] :
               ps \in SortedLists(MaxSorted), k \in {"avg_score", "title"}, a \in BOOLEAN}
      [] fn = "filter_paper_by_keywords" ->
           {[NoArg EXCEPT !.paper = p, !.keywords = ks, !.field_scope = sc, !.logic = l] :
               p \in KeywordPapers, ks \in KeywordLists, sc \in FieldScopes, l \in Logics}
      [] OTHER ->
           {[NoArg EXCEPT !.venue_id = v, !.resp = r] : v \in ScrapedIds, r \in WebResponses}

Functions ==
    {"parse_score", "get_venue_id_candidates", "scrape_venue", "sort_papers",
     "filter_paper_by_keywords"}

\* the function and the arguments of the call
CallChosen ==
    /\ c_pc = "called"
    /\ c_fn \in Functions
    /\ c_arg \in CallsOf(c_fn)
    /\ c_out = <<>>

\* parsing.py 11-49
ParseScore ==
    /\ c_pc = "called"
    /\ c_fn = "parse_score"
    /\ c_out' = parse_score(c_arg.text)
    /\ c_pc' = "returned"
    /\ UNCHANGED <<c_fn, c_arg>>
    /\ UNCHANGED <<scoreVars, retryVars, procVars, fetchVars, loadVars, sessionVars, viewVars>>

\* config.py 92-112
GetVenueIdCandidates ==
    /\ c_pc = "called"
    /\ c_fn = "get_venue_id_candidates"
    /\ c_out' = get_venue_id_candidates(c_arg.venue_name, c_arg.year)
    /\ c_pc' = "returned"
    /\ UNCHANGED <<c_fn, c_arg>>
    /\ UNCHANGED <<scoreVars, retryVars, procVars, fetchVars, loadVars, sessionVars, viewVars>>

\* web_scraper.py 66-78
ScrapeVenue ==
    /\ c_pc = "called"
    /\ c_fn = "scrape_venue"
    /\ c_out' = scrape_venue(c_arg.venue_id, c_arg.resp)
    /\ c_pc' = "returned"
    /\ UNCHANGED <<c_fn, c_arg>>
    /\ UNCHANGED <<scoreVars, retryVars, procVars, fetchVars, loadVars, sessionVars, viewVars>>

\* parsing.py 289-314
SortPapers ==
    /\ c_pc = "called"
    /\ c_fn = "sort_papers"
    /\ c_out' = sort_papers(c_arg.papers, c_arg.sort_by, c_arg.ascending)
    /\ c_pc' = "returned"
    /\ UNCHANGED <<c_fn, c_arg>>
    /\ UNCHANGED <<scoreVars, retryVars, procVars, fetchVars, loadVars, sessionVars, viewVars>>

\* parsing.py 154-187
FilterPaperByKeywords ==
    /\ c_pc = "called"
    /\ c_fn = "filter_paper_by_keywords"
    /\ c_out' = filter_paper_by_keywords(c_arg.paper, c_arg.keywords, c_arg.field_scope,
                                         c_arg.logic)
    /\ c_pc' = "returned"
    /\ UNCHANGED <<c_fn, c_arg>>
    /\ UNCHANGED <<scoreVars, retryVars, procVars, fetchVars, loadVars, sessionVars, viewVars>>

NextCalls ==
    \/ ParseScore \/ GetVenueIdCandidates \/ ScrapeVenue
    \/ SortPapers \/ FilterPaperByKeywords

-----------------------------------------------------------------------------
(* app.py: load_data, the clear-cache button, the rerun of the script *)

\* a task of venues_to_load: ("custom", id) or (venue, year)
CustomTask(id) == [custom |-> TRUE, venue |-> id, year |-> 0]
VenueTask(v, y) == [custom |-> FALSE, venue |-> v, year |-> y]

\* lines 106-108: [(venue, year) for year in range(year_start, year_end + 1)]
RECURSIVE YearTasks(_, _, _)
YearTasks(v, y, year_end) ==
    IF y > year_end THEN <<>>
    ELSE <<VenueTask(v, y)>> \o YearTasks(v, y + 1, year_end)

\* lines 106-108: the venues in order, each with its years in order
RECURSIVE VenueTasks(_, _, _)
VenueTasks(venues, year_start, year_end) ==
    IF venues = <<>> THEN <<>>
    ELSE YearTasks(venues[1], year_start, year_end)
             \o VenueTasks(Tail(venues), year_start, year_end)

\* lines 101-108
VenuesToLoad(fs) ==
    IF fs.custom_venue # <<>>
    THEN <<CustomTask(fs.custom_venue)>>
    ELSE VenueTasks(fs.venues, fs.year_start, fs.year_end)

\* lines 140-144: the candidates of a task
TaskCandidates(task) ==
    IF task.custom THEN <<task.venue>>
    ELSE get_venue_id_candidates(task.venue, task.year)

\* a stamp that also takes the count of scored reviews away
StampPaperAndReset(p, venue, year) ==
    [k \in DOMAIN p \cup {"year", "venue"} |->
        CASE k = "year" -> year
          [] k = "venue" -> venue
          [] k = "scored_review_count" -> 0
          [] OTHER -> p[k]]

\* lines 153-155: paper["year"] = year; paper["venue"] = ...
StampPaper(p, venue, year) ==
    [k \in DOMAIN p \cup {"year", "venue"} |->
        CASE k = "year" -> year
          [] k = "venue" -> venue
          [] OTHER -> p[k]]

Stamp(ps, venue, year) == [i \in DOMAIN ps |-> StampPaper(ps[i], venue, year)]

\* an entry of status_messages: the task's number, papers found (-1: no
\* data) and how many of them have a scored review
FoundMessage(t, ps) == [task |-> t, found |-> Len(ps), reviewed |-> ReviewedCount(ps)]
NotFoundMessage(t) == [task |-> t, found |-> -1, reviewed |-> 0]

NoFilters == [custom_venue |-> <<>>, venues |-> <<>>, year_start |-> 0, year_end |-> 0]

LoadIdle ==
    /\ l_pc = "idle"
    /\ filters = NoFilters
    /\ venues_to_load = <<>>
    /\ task_idx = 0
    /\ venue_ids = <<>>
    /\ vid_idx = 0
    /\ all_papers = <<>>
    /\ status_messages = <<>>
    /\ load_log = <<>>

\* load_data has returned or was left by an exception: its frame is gone
LoadLeave ==
    /\ l_pc' = "idle"
    /\ filters' = NoFilters
    /\ venues_to_load' = <<>>
    /\ task_idx' = 0
    /\ venue_ids' = <<>>
    /\ vid_idx' = 0
    /\ all_papers' = <<>>
    /\ status_messages' = <<>>
    /\ load_log' = <<>>

\* lines 13-21: every run of the script reloads openreview_client, which
\* executes "_client_cache = {}" again
Reload == client_cache' = NoHandle

\* app.py 96-119: load_data(filters) starts; with nothing to load it
\* returns at once
LoadBegin(fs) ==
    /\ l_pc = "idle"
    /\ Reload
    /\ IF VenuesToLoad(fs) = <<>>
       THEN UNCHANGED loadVars
       ELSE /\ l_pc' = "task"
            /\ filters' = fs
            /\ venues_to_load' = VenuesToLoad(fs)
            /\ task_idx' = 1
            /\ venue_ids' = <<>>
            /\ vid_idx' = 0
            /\ all_papers' = <<>>
            /\ status_messages' = <<>>
            /\ load_log' = <<>>
    /\ UNCHANGED <<handles_made, resp_cache, now, last_good>>

\* app.py 274-283: the load button
ClickLoad(fs) ==
    /\ LoadBegin(fs)
    /\ UNCHANGED <<callVars, viewVars, scoreVars, retryVars, fetchVars, sessionVars>>

\* lines 127-144: the next task and its candidates
TaskStart ==
    /\ l_pc = "task"
    /\ task_idx <= Len(venues_to_load)
    /\ venue_ids' = TaskCandidates(venues_to_load[task_idx])
    /\ vid_idx' = 1
    /\ l_pc' = "cand"
    /\ UNCHANGED <<filters, venues_to_load, task_idx, all_papers, status_messages, load_log>>
    /\ UNCHANGED <<callVars, viewVars, scoreVars, retryVars, procVars, fetchVars, sessionVars>>

\* lines 149-152: the next candidate is fetched
CandidateFetch ==
    /\ l_pc = "cand"
    /\ vid_idx <= Len(venue_ids)
    /\ FetchEnter(venue_ids[vid_idx])
    /\ l_pc' = "fetching"
    /\ UNCHANGED <<filters, venues_to_load, task_idx, venue_ids, vid_idx, all_papers,
                   status_messages, load_log>>
    /\ UNCHANGED <<callVars, viewVars, scoreVars, retryVars, procVars, sessionVars>>

\* lines 131-133, 137, 156: the year and the venue stamped on a task's papers
TaskYear(task) == IF task.custom THEN filters.year_start ELSE task.year

LogFetch == Append(load_log, [task |-> task_idx, cand |-> vid_idx,
                              vid |-> venue_id, papers |-> f_ret.papers])

\* the mutant of the action below: the loop over the candidates goes on
\* after a candidate gave papers
CandidateFoundNoBreak ==
    /\ l_pc = "fetching"
    /\ f_pc = "returned"
    /\ f_ret.papers # <<>>
    /\ all_papers' = all_papers \o Stamp(f_ret.papers, venues_to_load[task_idx].venue,
                                         TaskYear(venues_to_load[task_idx]))
    /\ status_messages' = Append(status_messages, FoundMessage(task_idx, f_ret.papers))
    /\ load_log' = LogFetch
    /\ vid_idx' = vid_idx + 1
    /\ l_pc' = "cand"
    /\ FetchLeave
    /\ UNCHANGED <<filters, venues_to_load, venue_ids, task_idx>>
    /\ UNCHANGED <<callVars, viewVars, scoreVars, retryVars, procVars, sessionVars>>

\* lines 152-173: the candidate gave papers: they are stamped, the task is
\* done with them (break), and all_papers is extended
CandidateFound ==
    /\ l_pc = "fetching"
    /\ f_pc = "returned"
    /\ f_ret.papers # <<>>
    /\ all_papers' = all_papers \o Stamp(f_ret.papers, venues_to_load[task_idx].venue,
                                         TaskYear(venues_to_load[task_idx]))
    /\ status_messages' = Append(status_messages, FoundMessage(task_idx, f_ret.papers))
    /\ load_log' = LogFetch
    /\ task_idx' = task_idx + 1
    /\ l_pc' = "task"
    /\ FetchLeave
    /\ UNCHANGED <<filters, venues_to_load, venue_ids, vid_idx>>
    /\ UNCHANGED <<callVars, viewVars, scoreVars, retryVars, procVars, sessionVars>>

\* lines 149-154: the candidate gave no papers: on to the next one
CandidateEmpty ==
    /\ l_pc = "fetching"
    /\ f_pc = "returned"
    /\ f_ret.papers = <<>>
    /\ load_log' = LogFetch
    /\ vid_idx' = vid_idx + 1
    /\ l_pc' = "cand"
    /\ FetchLeave
    /\ UNCHANGED <<filters, venues_to_load, task_idx, venue_ids, all_papers, status_messages>>
    /\ UNCHANGED <<callVars, viewVars, scoreVars, retryVars, procVars, sessionVars>>

\* lines 169-173: no candidate gave papers
CandidatesExhausted ==
    /\ l_pc = "cand"
    /\ vid_idx > Len(venue_ids)
    /\ status_messages' = Append(status_messages, NotFoundMessage(task_idx))
    /\ task_idx' = task_idx + 1
    /\ l_pc' = "task"
    /\ UNCHANGED <<filters, venues_to_load, venue_ids, vid_idx, all_papers, load_log>>
    /\ UNCHANGED <<callVars, viewVars, scoreVars, retryVars, procVars, fetchVars, sessionVars>>

\* lines 175-190: all tasks are done; the session state is updated
LoadFinish ==
    /\ l_pc = "task"
    /\ task_idx > Len(venues_to_load)
    /\ ss_papers' = all_papers
    /\ data_loaded' = TRUE
    /\ load_status' = status_messages
    /\ current_page' = 0
    /\ LoadLeave
    /\ UNCHANGED <<callVars, viewVars, scoreVars, retryVars, procVars, fetchVars>>

\* the exception of fetch_submissions_with_reviews leaves load_data and
\* main: the run of the script ends, the session state is as it was
LoadAborted ==
    /\ l_pc = "fetching"
    /\ f_pc = "raised"
    /\ FetchLeave
    /\ LoadLeave
    /\ UNCHANGED <<callVars, viewVars, scoreVars, retryVars, procVars, sessionVars>>

\* app.py 285-292: the clear-cache button
ClickClearCache ==
    /\ l_pc = "idle"
    /\ Reload
    /\ resp_cache' = <<>>
    /\ last_good' = <<>>
    /\ ss_papers' = <<>>
    /\ data_loaded' = FALSE
    /\ UNCHANGED <<handles_made, now, load_status, current_page>>
    /\ UNCHANGED <<callVars, viewVars, scoreVars, retryVars, fetchVars, loadVars>>

\* any other interaction reruns the script
Rerun ==
    /\ l_pc = "idle"
    /\ Reload
    /\ UNCHANGED <<handles_made, resp_cache, now, last_good>>
    /\ UNCHANGED <<callVars, viewVars, scoreVars, retryVars, fetchVars, loadVars, sessionVars>>

\* time passes between two runs of the script
TickHours == CACHE_TTL_HOURS \div 2

Tick ==
    /\ l_pc = "idle"
    /\ now + TickHours <= MaxTime
    /\ now' = now + TickHours
    /\ UNCHANGED <<client_cache, handles_made, resp_cache, last_good>>
    /\ UNCHANGED <<callVars, viewVars, scoreVars, retryVars, fetchVars, loadVars, sessionVars>>

LoadSteps ==
    \/ TaskStart \/ CandidateFetch \/ CandidateFound \/ CandidateEmpty
    \/ CandidatesExhausted \/ LoadFinish \/ LoadAborted

-----------------------------------------------------------------------------
(* app.py main and ui_components.py: one run of the script for each        *)
(* interaction with the page                                               *)

\* ui_components.py 186-187: the options of the page size and the one chosen
\* at the start
PageSizeOptions == <<20, 50, 100, 200>>

\* ui_components.py 60-188: the widgets as they are at the start
DefaultWidgets ==
    [keywords |-> <<>>, keyword_logic |-> "OR", field_scope |-> "title_or_abstract",
     min_avg_score |-> None, min_max_score |-> None, min_review_count |-> None,
     min_confidence |-> None, only_reviewed |-> TRUE, sort_by |-> "avg_score",
     page_size |-> PageSizeOptions[2]]

\* the key max_score_dataset of the session state: not set, or set to v
NoStat == [set |-> FALSE, v |-> None]
Stat(v) == [set |-> TRUE, v |-> v]

\* app.py 249: the default
DefaultMaxScore == Float(10)

\* the page after the first run of the script
ViewIdle ==
    /\ widgets = DefaultWidgets
    /\ filtered_papers = <<>>
    /\ max_score_dataset = NoStat
    /\ max_passed = DefaultMaxScore
    /\ papers_seen = <<>>

\* app.py 253-257: the max_score values that are not None
ValidMaxScores(papers) ==
    LET has(p) == NumberOf(p, "max_score") # None
        kept == SelectSeq(papers, has)
    IN  [i \in DOMAIN kept |-> kept[i].max_score]

\* app.py 250-264: the key max_score_dataset after the statistics
StatAfter(papers, loaded, msd) ==
    IF papers # <<>> /\ ValidMaxScores(papers) # <<>> /\ (~msd.set \/ loaded)
    THEN Stat(MaxOf(ValidMaxScores(papers)))
    ELSE msd

\* app.py 249-268: max_score_in_dataset as it is given to render_sidebar_filters
MaxScorePassed(papers, loaded, msd) ==
    IF StatAfter(papers, loaded, msd).set THEN StatAfter(papers, loaded, msd).v
    ELSE IF papers # <<>> /\ ValidMaxScores(papers) # <<>>
         THEN MaxOf(ValidMaxScores(papers))
         ELSE DefaultMaxScore

\* app.py 248-271: a run of the script begins with the papers of the session
RunBegins(papers, loaded) ==
    /\ max_score_dataset' = StatAfter(papers, loaded, max_score_dataset)
    /\ max_passed' = MaxScorePassed(papers, loaded, max_score_dataset)
    /\ papers_seen' = papers

\* ui_components.py 256-257
TotalPages(papers, page_size) == (Len(papers) + page_size - 1) \div page_size

\* ui_components.py 259-261: papers[start_idx:end_idx]
PageSlice(papers, page, page_size) ==
    LET start_idx == page * page_size
        end_idx == Min(start_idx + page_size, Len(papers))
    IN  SubSeq(papers, start_idx + 1, end_idx)

\* a widget of the sidebar other than the buttons is changed: the script
\* runs, app.py 248-271 and 294-353
ChangeWidgets(w) ==
    /\ l_pc = "idle"
    /\ Reload
    /\ RunBegins(ss_papers, data_loaded)
    /\ widgets' = w
    /\ filtered_papers' = IF data_loaded THEN apply_filters(ss_papers, w)
                          ELSE filtered_papers
    /\ UNCHANGED <<handles_made, resp_cache, now, last_good>>
    /\ UNCHANGED <<callVars, scoreVars, retryVars, fetchVars, loadVars, sessionVars>>

\* app.py 248-283: the load button on the page; load_data begins, or has
\* nothing to load and the run goes on to the table
ClickLoadOnPage(fs) ==
    /\ LoadBegin(fs)
    /\ RunBegins(ss_papers, data_loaded)
    /\ filtered_papers' = IF VenuesToLoad(fs) = <<>> /\ data_loaded
                          THEN apply_filters(ss_papers, widgets)
                          ELSE filtered_papers
    /\ UNCHANGED widgets
    /\ UNCHANGED <<callVars, scoreVars, retryVars, fetchVars, sessionVars>>

\* app.py 175-190, 294-353: load_data ends, the session state is updated
\* and the run goes on to the table
LoadFinishOnPage ==
    /\ l_pc = "task"
    /\ task_idx > Len(venues_to_load)
    /\ ss_papers' = all_papers
    /\ data_loaded' = TRUE
    /\ load_status' = status_messages
    /\ current_page' = 0
    /\ filtered_papers' = apply_filters(all_papers, widgets)
    /\ LoadLeave
    /\ UNCHANGED <<widgets, max_score_dataset, max_passed, papers_seen>>
    /\ UNCHANGED <<callVars, scoreVars, retryVars, procVars, fetchVars>>

\* app.py 285-292: the clear-cache button; st.rerun() runs the script again,
\* which stops at line 325
ClickClearCacheOnPage ==
    /\ l_pc = "idle"
    /\ Reload
    /\ resp_cache' = <<>>
    /\ last_good' = <<>>
    /\ ss_papers' = <<>>
    /\ filtered_papers' = <<>>
    /\ data_loaded' = FALSE
    /\ LET msd == StatAfter(ss_papers, data_loaded, max_score_dataset)
       IN  /\ max_score_dataset' = StatAfter(<<>>, FALSE, msd)
           /\ max_passed' = MaxScorePassed(<<>>, FALSE, msd)
           /\ papers_seen' = <<>>
    /\ UNCHANGED widgets
    /\ UNCHANGED <<handles_made, now, load_status, current_page>>
    /\ UNCHANGED <<callVars, scoreVars, retryVars, fetchVars, loadVars>>

\* ui_components.py 264-275: the table shows the buttons of the pages
ButtonsShown ==
    /\ l_pc = "idle"
    /\ data_loaded
    /\ apply_filters(ss_papers, widgets) # <<>>
    /\ TotalPages(apply_filters(ss_papers, widgets), widgets.page_size) > 1

\* a button of the pages was clicked: the run sets current_page, and
\* st.rerun() runs the script again
PageTurned(page) ==
    /\ current_page' = page
    /\ Reload
    /\ RunBegins(ss_papers, data_loaded)
    /\ filtered_papers' = apply_filters(ss_papers, widgets)
    /\ UNCHANGED widgets
    /\ UNCHANGED <<ss_papers, data_loaded, load_status>>
    /\ UNCHANGED <<handles_made, resp_cache, now, last_good>>
    /\ UNCHANGED <<callVars, scoreVars, retryVars, fetchVars, loadVars>>

\* ui_components.py 267-269: the previous page
ClickPrevPage ==
    /\ ButtonsShown
    /\ ~(current_page = 0)
    /\ PageTurned(current_page - 1)

\* ui_components.py 273-275: the next page
ClickNextPage ==
    /\ ButtonsShown
    /\ ~(current_page >= TotalPages(apply_filters(ss_papers, widgets),
                                    widgets.page_size) - 1)
    /\ PageTurned(current_page + 1)

-----------------------------------------------------------------------------
(* Specifications *)

NotRun == StatsOf(-1, <<>>, <<>>)

ScoresIdle ==
    /\ s_pc = {}
    /\ replies = <<>>
    /\ stats = NotRun
    /\ pstats = NotRun

ProcInit ==
    /\ client_cache = NoHandle
    /\ handles_made = 0
    /\ resp_cache = <<>>
    /\ now = 0
    /\ last_good = <<>>

SessionInit ==
    /\ ss_papers = <<>>
    /\ data_loaded = FALSE
    /\ load_status = <<>>
    /\ current_page = 0

\* (1) the aggregators on every list of replies
InitScores ==
    /\ s_pc = {}
    /\ replies \in ReplyLists
    /\ stats = NotRun
    /\ pstats = NotRun
    /\ RetryIdle /\ ProcInit /\ FetchIdle /\ LoadIdle /\ SessionInit /\ CallIdle /\ ViewIdle

\* a note's replies go through extract_scores_from_replies
ExtractScores ==
    /\ "extract" \notin s_pc
    /\ s_pc' = s_pc \cup {"extract"}
    /\ stats' = extract_scores_from_replies(replies)
    /\ UNCHANGED <<replies, pstats>>
    /\ UNCHANGED <<callVars, viewVars, retryVars, procVars, fetchVars, loadVars, sessionVars>>

\* a list of reviews goes through compute_score_stats
ComputeStats ==
    /\ "compute" \notin s_pc
    /\ s_pc' = s_pc \cup {"compute"}
    /\ pstats' = compute_score_stats(replies)
    /\ UNCHANGED <<replies, stats>>
    /\ UNCHANGED <<callVars, viewVars, retryVars, procVars, fetchVars, loadVars, sessionVars>>

NextScores == ExtractScores \/ ComputeStats

SpecScores == InitScores /\ [][NextScores]_vars

\* (2) retry_with_backoff on every callable and arguments
InitRetry ==
    /\ r_pc = "loop"
    /\ max_retries \in 0..MaxRetriesArg
    /\ base_delay \in 1..MaxBaseDelay
    /\ func \in Funcs
    /\ attempt = 0
    /\ r_result = <<>>
    /\ trace = <<>>
    /\ ScoresIdle /\ ProcInit /\ FetchIdle /\ LoadIdle /\ SessionInit /\ CallIdle /\ ViewIdle

SpecRetry == InitRetry /\ [][RetryNext]_vars

\* the application starts: nothing is cached, nothing is loaded
InitApp ==
    /\ ScoresIdle /\ RetryIdle /\ ProcInit /\ FetchIdle /\ LoadIdle /\ SessionInit
    /\ CallIdle /\ ViewIdle

Years == {2024, 2025}

\* the custom venue IDs typed in the sidebar
CustomIds ==
    {<<"ICLR", ".cc/", "2024", "/Conference">>,
     <<"AAAI", ".org/", "2025", "/Conference">>}

NeurIPS == <<"N", "e", "u", "r", "I", "P", "S">>
AAAI == <<"A", "A", "A", "I">>

\* (3) loads of a custom venue ID, with the clock, the clear-cache button and
\* reruns of the script.  Such a load makes one call of
\* fetch_submissions_with_reviews in a run that began with an empty
\* _client_cache, so create_client never finds a handle there.
CustomFilters ==
    {[custom_venue |-> id, venues |-> <<>>, year_start |-> 2024, year_end |-> 2024] :
        id \in CustomIds}

NextFetch ==
    \/ \E fs \in CustomFilters : ClickLoad(fs)
    \/ LoadSteps
    \/ FetchSteps
    \/ RetryNext
    \/ ClickClearCache
    \/ Rerun
    \/ Tick

SpecFetch == InitApp /\ [][NextFetch]_vars

\* (4) the first load of a new session, of venues and years chosen in the
\* sidebar; the response cache belongs to the process and may hold what an
\* earlier session fetched
VenueChoices == {<<>>, <<NeurIPS>>, <<NeurIPS, AAAI>>}

VenueFilters ==
    {[custom_venue |-> <<>>, venues |-> vs, year_start |-> y1, year_end |-> y2] :
        vs \in VenueChoices, y1 \in Years, y2 \in Years}

EarlierVenueId == get_venue_id_candidates(NeurIPS, 2024)[1]

EarlierReturns ==
    {[papers |-> Normalize(EarlierVenueId, ns),
      status |-> FetchedStatus(Normalize(EarlierVenueId, ns))] : ns \in NoteLists}

EarlierCaches ==
    {<<>>} \cup {EarlierVenueId :> [at |-> 0, papers |-> ret.papers, status |-> ret.status] :
                    ret \in EarlierReturns}

InitLoad ==
    /\ ScoresIdle /\ RetryIdle /\ FetchIdle /\ LoadIdle /\ SessionInit /\ CallIdle /\ ViewIdle
    /\ client_cache = NoHandle
    /\ now = 0
    /\ resp_cache \in EarlierCaches
    /\ last_good = resp_cache
    /\ handles_made = IF resp_cache = <<>> THEN 0 ELSE 1

NextLoad ==
    \/ \E fs \in VenueFilters : ~data_loaded /\ ClickLoad(fs)
    \/ LoadSteps
    \/ FetchNext
    \/ RetryNext

SpecLoad == InitLoad /\ [][NextLoad]_vars

\* (5) one call of a function without state, on every argument
InitCalls ==
    /\ ScoresIdle /\ RetryIdle /\ ProcInit /\ FetchIdle /\ LoadIdle /\ SessionInit
    /\ CallChosen /\ ViewIdle

SpecCalls == InitCalls /\ [][NextCalls]_vars

\* (6) the aggregators on one reply whose content holds score fields of
\* SCORE_FIELD_NAMES besides the rating
FieldChoices(k) ==
    CASE k = "rating" -> {VStr(<<"A", "c", "c", "e", "p", "t">>), Wrapped(VStr(StrongAccept))}
      [] k = "recommendation" -> {VStr(<<"5">>)}
      [] k = "soundness" -> {VNum(3)}
      [] k = "overall" -> {VNum(7), Wrapped(VNum(8))}
      [] k = "Rating" -> {VStr(<<"9">>)}
      [] OTHER -> SummaryValues

ScoreFields == {"rating", "recommendation", "soundness", "overall", "Rating", "summary"}

FieldContents ==
    UNION {{f \in [K -> UNION {FieldChoices(k) : k \in K}] :
               \A k \in K : f[k] \in FieldChoices(k)} : K \in SUBSET ScoreFields}

InitFields ==
    /\ s_pc = {}
    /\ replies \in {<<[has_content |-> TRUE, content |-> c]>> : c \in FieldContents}
                   \cup {<<[has_content |-> FALSE, content |-> <<>>]>>}
    /\ stats = NotRun
    /\ pstats = NotRun
    /\ RetryIdle /\ ProcInit /\ FetchIdle /\ LoadIdle /\ SessionInit /\ CallIdle /\ ViewIdle

SpecFields == InitFields /\ [][NextScores]_vars

\* (7) loads of custom venue IDs that are and are not of a venue with the
\* web source: the ID of AAAI, the ID of ICLR, and an ID of an ICLR
\* workshop that has the word AAAI in it
RoutedIds ==
    {<<"AAAI", ".org/", "2025", "/Conference">>,
     <<"ICLR", ".cc/", "2024", "/Conference">>,
     <<"ICLR", ".cc/", "2024", "/Workshop/", "AAAI">>}

RoutedFilters ==
    {[custom_venue |-> id, venues |-> <<>>, year_start |-> 2024, year_end |-> 2024] :
        id \in RoutedIds}

NextRoute ==
    \/ \E fs \in RoutedFilters : ClickLoad(fs)
    \/ LoadSteps
    \/ FetchSteps
    \/ RetryNext

SpecRoute == InitApp /\ [][NextRoute]_vars


\* (8) the page: loads, changes of the widgets, the buttons of the pages
\* and the clear-cache button.  The fetches of this specification are
\* answered by the response cache, which holds what an earlier session
\* fetched for ICLR 2024 (more papers than the smallest page holds, the
\* first with a review), or by the web scraper.
ICLR == <<"I", "C", "L", "R">>

PageVenueId == get_venue_id_candidates(ICLR, 2024)[1]

PageNotes == [i \in 1..(PageSizeOptions[1] + 1) |-> IF i = 1 THEN NoteA ELSE NoteB]

PageCache ==
    PageVenueId :> [at |-> 0, papers |-> Normalize(PageVenueId, PageNotes),
                    status |-> FetchedStatus(Normalize(PageVenueId, PageNotes))]

PageFilters ==
    {[custom_venue |-> PageVenueId, venues |-> <<>>, year_start |-> 2024, year_end |-> 2024],
     [custom_venue |-> <<>>, venues |-> <<ICLR>>, year_start |-> 2024, year_end |-> 2024],
     [custom_venue |-> <<>>, venues |-> <<AAAI>>, year_start |-> 2025, year_end |-> 2025],
     [custom_venue |-> <<>>, venues |-> <<>>, year_start |-> 2024, year_end |-> 2024]}

\* the values the widgets are changed to
WidgetChoices ==
    {DefaultWidgets,
     [DefaultWidgets EXCEPT !.only_reviewed = FALSE, !.page_size = PageSizeOptions[1]],
     [DefaultWidgets EXCEPT !.only_reviewed = FALSE, !.page_size = PageSizeOptions[1],
                            !.keywords = << <<"T1">> >>, !.field_scope = "title",
                            !.sort_by = "scored_review_count"],
     [DefaultWidgets EXCEPT !.min_avg_score = Float(5), !.sort_by = "max_score"]}

\* every fetch of the load is answered by the cache or by the web scraper
Answered(fs) ==
    \A t \in DOMAIN VenuesToLoad(fs) :
        \A c \in DOMAIN TaskCandidates(VenuesToLoad(fs)[t]) :
            \/ IsWebVenue(TaskCandidates(VenuesToLoad(fs)[t])[c])
            \/ TaskCandidates(VenuesToLoad(fs)[t])[c] \in DOMAIN resp_cache

InitPage ==
    /\ ScoresIdle /\ RetryIdle /\ FetchIdle /\ LoadIdle /\ SessionInit /\ CallIdle /\ ViewIdle
    /\ client_cache = NoHandle
    /\ now = 0
    /\ resp_cache = PageCache
    /\ last_good = resp_cache
    /\ handles_made = 1

NextPage ==
    \/ \E fs \in PageFilters : Answered(fs) /\ ClickLoadOnPage(fs)
    \/ TaskStart \/ CandidateFetch \/ CandidateFound \/ CandidateEmpty
    \/ CandidatesExhausted \/ LoadFinishOnPage
    \/ CacheHit \/ CacheMiss \/ WebRoute
    \/ \E w \in WidgetChoices : ChangeWidgets(w)
    \/ ClickPrevPage \/ ClickNextPage
    \/ ClickClearCacheOnPage

SpecPage == InitPage /\ [][NextPage]_vars
-----------------------------------------------------------------------------
(* Claims about the aggregation, under SpecScores *)

\* a rating field that holds zero: 0, "0", {value: 0} or {value: "0"}
HoldsZero(v) ==
    /\ v.w \in {"bare", "value"}
    /\ \/ v.t = "num" /\ v.n = Float(0)
       \/ v.t = "str" /\ v.s = <<"0">>

ZeroRated(reply) ==
    /\ is_review_reply(reply)
    /\ "rating" \in DOMAIN ContentOf(reply)
    /\ HoldsZero(ContentOf(reply)["rating"])

CountIn(xs, P(_)) == Cardinality({i \in DOMAIN xs : P(xs[i])})

IsZero(x) == x = Float(0)

\* C8: every review whose rating field holds zero is a scored review with
\* score 0.0: the scores of the fetch path hold a 0.0 for each of them, and a
\* note whose only reply is such a review has max = min = avg = 0.0.
C8_ZeroIsAScore ==
    "extract" \in s_pc =>
        /\ CountIn(stats.scores, IsZero) >= CountIn(replies, ZeroRated)
        /\ (Len(replies) = 1 /\ ZeroRated(replies[1])) =>
               /\ stats.scores = <<Float(0)>>
               /\ stats.max_score = Float(0)
               /\ stats.min_score = Float(0)
               /\ stats.avg_score = Float(0)

CountsAgree(st) ==
    /\ st.scored_review_count = Len(st.scores)
    /\ st.scored_review_count <= st.review_count

\* C9: for every list of replies, the statistics of extract_scores_from_replies
\* and of compute_score_stats have scored_review_count = len(scores) and
\* scored_review_count <= review_count.
C9_ScoredCountWithinReviewCount ==
    /\ "extract" \in s_pc => CountsAgree(stats)
    /\ "compute" \in s_pc => CountsAgree(pstats)

C9_Witness ==
    /\ s_pc = {"extract", "compute"}
    /\ stats.review_count = 2 /\ stats.scored_review_count = 1
    /\ pstats.review_count = 2 /\ pstats.scored_review_count = 1

\* no review of the list yields a score on the fetch path
NoScoreExtracted(rs) ==
    \A i \in DOMAIN rs :
        is_review_reply(rs[i]) => ScoreOfRating(RatingOf(ContentOf(rs[i]))) = None

NoConfidenceExtracted(rs) ==
    \A i \in DOMAIN rs :
        is_review_reply(rs[i]) => ConfidenceOfContent(ContentOf(rs[i])) = None

\* no review of the list yields a score in compute_score_stats
NoScoreParsed(rs) == \A i \in DOMAIN rs : extract_review_scores(rs[i]).score = None

NoConfidenceParsed(rs) ==
    \A i \in DOMAIN rs : extract_review_scores(rs[i]).confidence = None

ScoresAbsent(st) ==
    /\ st.max_score = None
    /\ st.min_score = None
    /\ st.avg_score = None

\* C10: when no review yields a parseable score, max_score, min_score and
\* avg_score are all None (not 0), and avg_confidence is None when no
\* confidence was extracted; both aggregators.
C10_NoScoreMeansAbsent ==
    /\ "extract" \in s_pc =>
          /\ NoScoreExtracted(replies) => ScoresAbsent(stats)
          /\ NoConfidenceExtracted(replies) => stats.avg_confidence = None
    /\ "compute" \in s_pc =>
          /\ NoScoreParsed(replies) => ScoresAbsent(pstats)
          /\ NoConfidenceParsed(replies) => pstats.avg_confidence = None

C10_Witness ==
    /\ s_pc = {"extract", "compute"}
    /\ stats.review_count = 2 /\ stats.scores = <<>> /\ stats.confidences # <<>>
    /\ pstats.scores = <<>> /\ pstats.avg_score = None

-----------------------------------------------------------------------------
(* Claims about retry_with_backoff *)

Last(s) == s[Len(s)]

IsCall(ev) == ev.k = "call"
IsSleep(ev) == ev.k = "sleep"

\* the number of calls among the first n events of a trace
RECURSIVE CallsUpTo(_, _)
CallsUpTo(tr, n) ==
    IF n = 0 THEN 0
    ELSE CallsUpTo(tr, n - 1) + (IF IsCall(tr[n]) THEN 1 ELSE 0)

Calls(tr) == CallsUpTo(tr, Len(tr))
Sleeps(tr) == Len(tr) - Calls(tr)

\* C3: retry_with_backoff invokes func at most max_retries times; when it
\* returns, the invocation it returns the value of is the last one and the
\* only one that did not raise; when it raises (OpenReviewClientError, the
\* only way the model's retry_with_backoff raises), func was invoked
\* max_retries times and raised every time.  func raises subclasses of
\* Exception.
C3_RetryContract ==
    r_pc # "idle" =>
        /\ r_pc \in {"loop", "returned", "raised"}
        /\ Calls(trace) <= max_retries
        /\ r_pc = "loop" => \A i \in DOMAIN trace : IsCall(trace[i]) => ~trace[i].ok
        /\ r_pc = "returned" =>
              /\ trace # <<>>
              /\ IsCall(Last(trace)) /\ Last(trace).ok /\ Last(trace).v = r_result
              /\ \A i \in 1..(Len(trace) - 1) : IsCall(trace[i]) => ~trace[i].ok
        /\ r_pc = "raised" =>
              /\ Calls(trace) = max_retries
              /\ \A i \in DOMAIN trace : IsCall(trace[i]) => ~trace[i].ok

\* the third invocation is the first that does not raise
C3_Witness ==
    /\ r_pc = "returned"
    /\ Calls(trace) = 3
    /\ r_result # <<>>

\* C4: the waits of retry_with_backoff occur only between attempts: a wait
\* directly follows a failed attempt and another attempt follows it; the
\* wait after the k-th failed attempt (from 0) is base_delay * 2^k, so each
\* wait is twice the one before; when n >= 1 attempts are exhausted there
\* were n - 1 waits, none after the last attempt (and none when n = 0).
C4_WaitsBetweenAttempts ==
    r_pc # "idle" =>
        /\ \A i \in DOMAIN trace :
              IsSleep(trace[i]) =>
                  /\ i > 1
                  /\ IsCall(trace[i - 1]) /\ ~trace[i - 1].ok
                  /\ trace[i].d = base_delay * Pow2(CallsUpTo(trace, i) - 1)
                  /\ i > 2 => /\ IsSleep(trace[i - 2])
                              /\ trace[i].d = 2 * trace[i - 2].d
                  /\ i < Len(trace) => IsCall(trace[i + 1])
                  /\ i = Len(trace) => r_pc = "loop" /\ Calls(trace) < max_retries
        /\ \A i \in DOMAIN trace :
              (IsCall(trace[i]) /\ i > 1) => IsSleep(trace[i - 1])
        /\ r_pc = "raised" =>
              Sleeps(trace) = IF max_retries = 0 THEN 0 ELSE max_retries - 1

\* four attempts are exhausted with three waits
C4_Witness ==
    /\ r_pc = "raised"
    /\ max_retries = 4
    /\ Sleeps(trace) = 3
    /\ base_delay > 1

-----------------------------------------------------------------------------
(* Claims about fetch_submissions_with_reviews and the caches *)

\* C1: fetch_submissions_with_reviews never propagates an exception: no call
\* of it ends by raising.
C1_FetchNeverRaises == f_pc # "raised"

\* the order of the requests of one fetch
QueryOrder ==
    <<[phase |-> "primary", variant |-> "Submission"],
      [phase |-> "primary", variant |-> "Blind_Submission"],
      [phase |-> "primary", variant |-> "Paper"],
      [phase |-> "legacy", variant |-> "Submission"],
      [phase |-> "legacy", variant |-> "Blind_Submission"],
      [phase |-> "legacy", variant |-> "Paper"]>>

ApiFetch == f_pc # "idle" /\ ~IsWebVenue(venue_id)

\* the requests so far are a prefix of QueryOrder, and only the last found
\* records
InQueryOrder ==
    /\ Len(net_log) <= Len(QueryOrder)
    /\ \A i \in DOMAIN net_log :
          /\ net_log[i].phase = QueryOrder[i].phase
          /\ net_log[i].variant = QueryOrder[i].variant
          /\ i < Len(net_log) => net_log[i].notes = <<>>

\* the papers returned are those of the last request
ReturnsTheFound ==
    (f_pc = "returned" /\ net_log # <<>>) =>
        f_ret.papers = Normalize(venue_id, Last(net_log).notes)

\* the requests of the first three go through the handle of create_client,
\* those of the last three through a V1 handle made for them
ThroughTheHandles ==
    \A i \in DOMAIN net_log :
        /\ net_log[i].phase = "primary" =>
              net_log[i].gen = client.gen /\ net_log[i].handle = client.n
        /\ net_log[i].phase = "legacy" =>
              net_log[i].gen = "v1" /\ net_log[i].handle = v1_client.n

C5_ServedFromCache ==
    [][(/\ f_pc = "lookup"
        /\ venue_id \in DOMAIN last_good
        /\ now - last_good[venue_id].at < CACHE_TTL_HOURS)
       => (/\ f_pc' = "returned"
           /\ f_ret' = [papers |-> last_good[venue_id].papers,
                        status |-> last_good[venue_id].status]
           /\ net_log' = <<>>
           /\ handles_made' = handles_made)]_vars

\* a later call, at a later time, answered without a request
C5_Witness ==
    /\ f_pc = "returned"
    /\ net_log = <<>>
    /\ venue_id \in DOMAIN last_good
    /\ now > last_good[venue_id].at
    /\ f_ret.papers # <<>>
    /\ ~IsWebVenue(venue_id)

\* C6: at most one connection handle is ever constructed in a process
C6_AtMostOneHandle == handles_made <= 1

-----------------------------------------------------------------------------
(* Claims about load_data *)

CandidatesOfTask(t) == TaskCandidates(venues_to_load[t])

YearCount == filters.year_end - filters.year_start + 1

\* the tasks are the venues in the order chosen, each with its years in
\* ascending order
TasksEnumerated ==
    filters.custom_venue = <<>> =>
        /\ Len(venues_to_load) = Len(filters.venues) * YearCount
        /\ \A i \in DOMAIN venues_to_load :
              venues_to_load[i] =
                  VenueTask(filters.venues[((i - 1) \div YearCount) + 1],
                            filters.year_start + ((i - 1) % YearCount))

\* every fetch is of the candidate its entry names; the first fetch of a task
\* is of its first candidate; the fetch after one that gave no papers is of
\* the next candidate of the same task, or of a later task when there is
\* none; the fetch after one that gave papers is of a later task
FetchedInOrder ==
    \A i \in DOMAIN load_log :
        LET e == load_log[i]
            cands == CandidatesOfTask(e.task)
        IN  /\ e.task \in DOMAIN venues_to_load
            /\ e.task <= task_idx
            /\ e.cand \in DOMAIN cands
            /\ e.vid = cands[e.cand]
            /\ i = 1 => /\ e.cand = 1
                        /\ \A t \in 1..(e.task - 1) : CandidatesOfTask(t) = <<>>
            /\ i > 1 =>
                  LET p == load_log[i - 1]
                  IN  IF e.task = p.task
                      THEN p.papers = <<>> /\ e.cand = p.cand + 1
                      ELSE /\ e.task > p.task
                           /\ e.cand = 1
                           /\ p.papers # <<>> \/ p.cand = Len(CandidatesOfTask(p.task))
                           /\ \A t \in (p.task + 1)..(e.task - 1) :
                                 CandidatesOfTask(t) = <<>>

\* the papers of the fetches that gave some, stamped, in order
RECURSIVE PapersOfLog(_)
PapersOfLog(log) ==
    IF log = <<>> THEN <<>>
    ELSE PapersOfLog(SubSeq(log, 1, Len(log) - 1)) \o
         Stamp(Last(log).papers, venues_to_load[Last(log).task].venue,
               TaskYear(venues_to_load[Last(log).task]))

\* the fetch in progress is of the candidate under the cursor
OneAtATime ==
    f_pc # "idle" =>
        /\ l_pc = "fetching"
        /\ vid_idx \in DOMAIN venue_ids
        /\ venue_id = venue_ids[vid_idx]
        /\ venue_ids = CandidatesOfTask(task_idx)

\* C7: in load_data the candidates of a task are fetched one at a time in
\* the order of get_venue_id_candidates; the first that gives papers supplies
\* the papers of the task and no later candidate of the task is fetched; the
\* tasks are processed in the order in which venues x years were enumerated.
C7_CandidatesInOrder ==
    l_pc # "idle" =>
        /\ TasksEnumerated
        /\ FetchedInOrder
        /\ OneAtATime
        /\ all_papers = PapersOfLog(load_log)

\* the first candidate of a task gave nothing, the second gave papers, and
\* the next task went on from its first candidate
C7_Witness ==
    /\ Len(load_log) >= 3
    /\ load_log[1].papers = <<>>
    /\ load_log[2].task = load_log[1].task
    /\ load_log[2].cand = 2
    /\ load_log[2].papers # <<>>
    /\ load_log[3].task = load_log[2].task + 1
    /\ load_log[3].cand = 1

-----------------------------------------------------------------------------
(* Claims about the score fields, the classifier and parse_score *)

\* the first name of names[i..] that is a key of content, "" if none is
RECURSIVE FirstPresent(_, _, _)
FirstPresent(content, names, i) ==
    IF i > Len(names) THEN ""
    ELSE IF names[i] \in DOMAIN content THEN names[i]
         ELSE FirstPresent(content, names, i + 1)

\* the value a field holds, out of its {value: v} wrapper if it has one
Unwrapped(v) == IF v.w = "value" THEN [v EXCEPT !.w = "bare"] ELSE v

\* the parse of the first field of SCORE_FIELD_NAMES present in content
ScoreByPriority(content) ==
    IF FirstPresent(content, SCORE_FIELD_NAMES, 1) = "" THEN None
    ELSE parse_score(Unwrapped(content[FirstPresent(content, SCORE_FIELD_NAMES, 1)]))

OnlyScoreField(content, k) ==
    /\ k \in DOMAIN content
    /\ content[k].t = "num"
    /\ \A i \in DOMAIN SCORE_FIELD_NAMES :
          SCORE_FIELD_NAMES[i] \in DOMAIN content => SCORE_FIELD_NAMES[i] = k

\* C11: on the fetch path the score of a review is the parse of the first
\* field of SCORE_FIELD_NAMES present in its content; a review whose only
\* score field is soundness or overall, with a number, is a scored review.
C11_ScoreByFieldPriority ==
    ("extract" \in s_pc /\ Len(replies) = 1 /\ is_review_reply(replies[1])) =>
        /\ stats.scores = AppendIf(<<>>, ScoreByPriority(ContentOf(replies[1])))
        /\ \A k \in {"soundness", "overall"} :
              OnlyScoreField(ContentOf(replies[1]), k) => stats.scored_review_count = 1

\* a reply whose content has a key of the vocabulary
InVocabulary(reply) ==
    /\ reply.has_content
    /\ \E k \in DOMAIN reply.content : k \in REVIEW_INDICATOR_KEYS

\* the reviews of a list that a score is extracted from on the fetch path
ScoredReviews(rs) ==
    {i \in DOMAIN rs :
        InVocabulary(rs[i]) /\ ScoreOfRating(RatingOf(ContentOf(rs[i]))) # None}

\* C12: a reply is classified as a review exactly when its content has a key
\* of REVIEW_INDICATOR_KEYS (missing or empty content: not a review); every
\* review adds one to review_count, and one to scored_review_count only when
\* a score is extracted from it.
C12_ReviewsByVocabulary ==
    /\ \A i \in DOMAIN replies : is_review_reply(replies[i]) <=> InVocabulary(replies[i])
    /\ "extract" \in s_pc =>
          /\ stats.review_count = Cardinality({i \in DOMAIN replies : InVocabulary(replies[i])})
          /\ stats.scored_review_count = Cardinality(ScoredReviews(replies))

\* the content is {summary: ...} alone: a review with no score
C12_Witness ==
    /\ "extract" \in s_pc
    /\ Len(replies) = 1
    /\ replies[1].has_content
    /\ DOMAIN replies[1].content = {"summary"}
    /\ stats.review_count = 1
    /\ stats.scored_review_count = 0

\* a reply whose rating and confidence are of the form {value: v}
WrappedReview(reply) ==
    /\ reply.has_content
    /\ {"rating", "confidence"} \subseteq DOMAIN reply.content
    /\ reply.content["rating"].w = "value"
    /\ reply.content["confidence"].w = "value"

\* the values of xs that are not None, in order
RECURSIVE Present(_)
Present(xs) ==
    IF xs = <<>> THEN <<>>
    ELSE (IF xs[1] # None THEN <<xs[1]>> ELSE <<>>) \o Present(Tail(xs))

ParsedUnwrapped(rs, k) ==
    Present([i \in DOMAIN rs |-> parse_score(Unwrapped(rs[i].content[k]))])

\* C13: when the rating and the confidence of every reply are of the form
\* {value: v}, every reply is a review and the scores and confidences
\* extracted are parse_score of the values v, on the fetch path and in
\* compute_score_stats.
C13_WrappedValuesUnwrapped ==
    (\A i \in DOMAIN replies : WrappedReview(replies[i])) =>
        /\ \A i \in DOMAIN replies : is_review_reply(replies[i])
        /\ "extract" \in s_pc =>
              /\ stats.review_count = Len(replies)
              /\ stats.scores = ParsedUnwrapped(replies, "rating")
              /\ stats.confidences = ParsedUnwrapped(replies, "confidence")
        /\ "compute" \in s_pc =>
              /\ pstats.scores = ParsedUnwrapped(replies, "rating")
              /\ pstats.confidences = ParsedUnwrapped(replies, "confidence")

\* rating {value: "6: Strong Accept"} and confidence {value: "4"}
C13_Witness ==
    /\ s_pc = {"extract", "compute"}
    /\ Len(replies) = 1
    /\ WrappedReview(replies[1])
    /\ replies[1].content["rating"] = Wrapped(VStr(StrongAccept))
    /\ stats.scores = <<Float(6)>> /\ stats.confidences = <<Float(4)>>
    /\ pstats.scores = <<Float(6)>> /\ pstats.confidences = <<Float(4)>>

\* the number the digits s[a..b-1] write
RECURSIVE Written(_, _, _)
Written(s, a, b) ==
    IF a >= b THEN 0 ELSE DigitVal(s[a]) * Pow10(b - 1 - a) + Written(s, a + 1, b)

\* the least index from a on where s has no digit
RunEnd(s, a) ==
    IF \A k \in a..Len(s) : s[k] \in Digits THEN Len(s) + 1
    ELSE CHOOSE e \in a..Len(s) :
             s[e] \notin Digits /\ \A k \in a..(e - 1) : s[k] \in Digits

\* the number of the leftmost substring of s that is an optional minus
\* sign, digits and an optional fraction; s has a digit
LeftmostNumber(s) ==
    LET fd   == CHOOSE i \in DOMAIN s : s[i] \in Digits /\ \A j \in 1..(i - 1) : s[j] \notin Digits
        neg  == fd > 1 /\ s[fd - 1] = "-"
        e1   == RunEnd(s, fd)
        frac == e1 <= Len(s) /\ s[e1] = "."
        e2   == IF frac THEN RunEnd(s, e1 + 1) ELSE e1 + 1
        nf   == e2 - e1 - 1
        mag  == Written(s, fd, e1) * Pow10(nf) + (IF frac THEN Written(s, e1 + 1, e2) ELSE 0)
    IN  Rat(IF neg THEN -mag ELSE mag, Pow10(nf))

\* C14: parse_score returns a number as it is, for a string the number of its
\* leftmost substring that is an optional minus sign, digits and an optional
\* fraction, and None for None and for a string with no digit (the empty
\* and the blank ones among them).
C14_ParseScore ==
    (c_pc = "returned" /\ c_fn = "parse_score") =>
        CASE c_arg.text.t = "none" -> c_out = None
          [] c_arg.text.t = "num" -> c_out = c_arg.text.n
          [] OTHER ->
               IF \E i \in DOMAIN c_arg.text.s : c_arg.text.s[i] \in Digits
               THEN c_out = LeftmostNumber(c_arg.text.s)
               ELSE c_out = None

\* a minus sign, digits and a fraction after other characters
C14_Witness ==
    /\ c_pc = "returned"
    /\ c_fn = "parse_score"
    /\ c_arg.text = VStr(<<"a", "-", "3", ".", "0">>)
    /\ c_out = Float(-3)

-----------------------------------------------------------------------------
(* Claims about the web source and the papers returned *)

\* the venue ID is a pattern of a venue with the web source, for some year
OfWebVenue(vid) ==
    \E i \in DOMAIN VENUE_MAPPINGS :
        /\ VENUE_MAPPINGS[i].source = "web"
        /\ \E j \in DOMAIN VENUE_MAPPINGS[i].patterns, y \in CallYears :
              vid = Format(VENUE_MAPPINGS[i].patterns[j], y)

\* C15: a fetch for a venue ID of a venue with the web source makes only the
\* request of the web scraper and none to the API, through no handle; a fetch
\* for any other venue ID makes no request of the web scraper.
C15_RoutedBySource ==
    f_pc # "idle" =>
        /\ OfWebVenue(venue_id) =>
              /\ client = NoHandle /\ v1_client = NoHandle
              /\ \A k \in DOMAIN net_log : net_log[k].phase = "web"
        /\ ~OfWebVenue(venue_id) =>
              \A k \in DOMAIN net_log : net_log[k].phase # "web"

\* the fields of a Paper
PaperFields ==
    {"id", "forum", "title", "abstract", "authors", "keywords", "tldr", "pdf",
     "pdf_url", "openreview_url", "venue_id", "review_count", "scored_review_count",
     "scores", "confidences", "max_score", "min_score", "avg_score", "avg_confidence"}

\* C17: every paper a fetch returns, from the API or from the web scraper,
\* has all the fields of a Paper.
C17_SamePaperShape ==
    f_pc = "returned" =>
        \A i \in DOMAIN f_ret.papers : PaperFields \subseteq DOMAIN f_ret.papers[i]

\* C18: the status of every fetch that did not fail reports the number of
\* papers returned and the number of them with a scored review, which is not
\* more; by every route.
C18_StatusReportsCounts ==
    (f_pc = "returned" /\ f_ret.status.kind # "Error") =>
        /\ f_ret.status.kind = "Fetched"
        /\ f_ret.status.total = Len(f_ret.papers)
        /\ f_ret.status.reviewed = ReviewedCount(f_ret.papers)
        /\ f_ret.status.reviewed <= f_ret.status.total

\* the request failed or the venue ID has no year or is not of AAAI
ScrapeFails(arg) ==
    \/ arg.resp.status # "ok"
    \/ \A k \in DOMAIN arg.venue_id : arg.venue_id[k] \notin YearTokens
    \/ \A k \in DOMAIN arg.venue_id : arg.venue_id[k] # "AAAI"

\* C16: scrape_venue returns a list for every venue ID and every outcome of
\* the request: the empty list for a 404, another error status, a timeout, a
\* connection failure, a body that is not JSON and a venue ID with no year,
\* and otherwise one paper for each entry of the data.
C16_ScrapeNeverFails ==
    (c_pc = "returned" /\ c_fn = "scrape_venue") =>
        /\ DOMAIN c_out = 1..Len(c_out)
        /\ ScrapeFails(c_arg) => c_out = <<>>
        /\ ~ScrapeFails(c_arg) => Len(c_out) = Len(c_arg.resp.data)

\* the request for AAAI 2025 times out
C16_Witness ==
    /\ c_pc = "returned"
    /\ c_fn = "scrape_venue"
    /\ c_arg.venue_id = <<"AAAI", ".org/", "2025", "/Conference">>
    /\ c_arg.resp.status = "timeout"
    /\ c_out = <<>>

-----------------------------------------------------------------------------
(* Claims about get_venue_id_candidates *)

\* two names that differ in letter case at most
SameLetters(a, b) ==
    /\ Len(a) = Len(b)
    /\ \A k \in DOMAIN a : LowerChar(a[k]) = LowerChar(b[k])

\* the name is the name or an alias of the configuration, in some letter case
NamesVenue(cfg, venue_name) ==
    \/ SameLetters(venue_name, cfg.name)
    \/ \E j \in DOMAIN cfg.aliases : SameLetters(venue_name, cfg.aliases[j])

\* C19: for the name or an alias of a venue in any letter case and every
\* year, get_venue_id_candidates returns the patterns of the venue with the
\* year filled in, in declaration order: NeurIPS.cc/... before NIPS.cc/...
C19_CaseAndAliasTolerant ==
    (c_pc = "returned" /\ c_fn = "get_venue_id_candidates") =>
        /\ \A i \in DOMAIN VENUE_MAPPINGS :
              NamesVenue(VENUE_MAPPINGS[i], c_arg.venue_name) =>
                  /\ Len(c_out) = Len(VENUE_MAPPINGS[i].patterns)
                  /\ \A j \in DOMAIN c_out :
                        c_out[j] = Format(VENUE_MAPPINGS[i].patterns[j], c_arg.year)
        /\ NamesVenue(VENUE_MAPPINGS[2], c_arg.venue_name) =>
              c_out = << <<"NeurIPS", ".cc/", YearToken(c_arg.year), "/Conference">>,
                         <<"NIPS", ".cc/", YearToken(c_arg.year), "/Conference">> >>

\* "nips" and 2023
C19_Witness ==
    /\ c_pc = "returned"
    /\ c_fn = "get_venue_id_candidates"
    /\ c_arg.venue_name = <<"n", "i", "p", "s">>
    /\ c_arg.year = 2023
    /\ c_out = << <<"NeurIPS", ".cc/", "2023", "/Conference">>,
                  <<"NIPS", ".cc/", "2023", "/Conference">> >>

\* C20: get_venue_id_candidates returns at least one candidate, and for a
\* name that matches no configuration the list of that name alone.
C20_AtLeastOneCandidate ==
    (c_pc = "returned" /\ c_fn = "get_venue_id_candidates") =>
        /\ c_out # <<>>
        /\ (\A i \in DOMAIN VENUE_MAPPINGS :
               /\ ~NamesVenue(VENUE_MAPPINGS[i], c_arg.venue_name)
               /\ ~SameLetters(Strip(c_arg.venue_name), VENUE_MAPPINGS[i].name))
           => c_out = <<c_arg.venue_name>>

\* a name no configuration has
C20_Witness ==
    /\ c_pc = "returned"
    /\ c_fn = "get_venue_id_candidates"
    /\ c_arg.venue_name = <<"C", "V", "P", "R">>
    /\ c_out = << <<"C", "V", "P", "R">> >>

-----------------------------------------------------------------------------
(* Claims about failures of requests and the cache of responses *)

\* C23: a request that exhausted its retries is not the end of the fetch: the
\* variants after it are requested, up to the last one of the legacy API or
\* the one that gives records (or the legacy handle cannot be made); and the
\* status is an error only if all variants of both APIs were requested and
\* none gave records.
C23_FailureDoesNotEndFetch ==
    (f_pc = "returned" /\ ApiFetch /\ net_log # <<>>) =>
        /\ ~Last(net_log).ok =>
              \/ Len(net_log) = Len(QueryOrder)
              \/ Len(net_log) = Len(AltPatterns) + 1 /\ v1_client = NoHandle
        /\ f_ret.status.kind = "Error" =>
              /\ Len(net_log) = Len(QueryOrder)
              /\ \A k \in DOMAIN net_log : net_log[k].notes = <<>>

\* the entry of the cache for the venue ID is fresh
FreshEntry ==
    /\ venue_id \in DOMAIN resp_cache
    /\ now - resp_cache[venue_id].at < CACHE_TTL_HOURS

\* C24: every value fetch_submissions_with_reviews returns is in the cache,
\* the empty list with an error status or with "Fetched 0 papers" too; a
\* call for a venue ID with a fresh entry of an empty list returns that
\* entry and makes no request; the body runs again only when there is no
\* fresh entry, and an entry goes only when the cache is cleared.
C24_EmptyResultsCached ==
    [][/\ (f_pc # "returned" /\ f_pc' = "returned") =>
              /\ venue_id \in DOMAIN resp_cache'
              /\ resp_cache'[venue_id].papers = f_ret'.papers
              /\ resp_cache'[venue_id].status = f_ret'.status
       /\ (f_pc = "lookup" /\ FreshEntry /\ resp_cache[venue_id].papers = <<>>) =>
              /\ f_pc' = "returned"
              /\ f_ret' = [papers |-> <<>>, status |-> resp_cache[venue_id].status]
              /\ net_log' = <<>>
              /\ resp_cache' = resp_cache
       /\ (f_pc = "lookup" /\ f_pc' = "body") => ~FreshEntry
       /\ (\E x \in DOMAIN resp_cache : x \notin DOMAIN resp_cache') =>
              /\ l_pc = "idle" /\ f_pc = "idle"
              /\ resp_cache' = <<>>]_vars

\* an error is answered from the cache at a later time
C24_Witness ==
    /\ f_pc = "returned"
    /\ net_log = <<>>
    /\ f_ret.papers = <<>>
    /\ f_ret.status.kind = "Error"
    /\ venue_id \in DOMAIN resp_cache
    /\ now > resp_cache[venue_id].at

-----------------------------------------------------------------------------
(* Claims about the sort and the keyword filter *)

SortValueOf(p, k) == IF k = "title" THEN p.title.s ELSE p[k]

HasValue(p, k) == k = "title" \/ p[k] # None

\* a and b are in the requested order, or equal
InDirection(a, b, k, ascending) ==
    IF k = "title"
    THEN IF ascending THEN ~StrLess(Lower(b), Lower(a)) ELSE ~StrLess(Lower(a), Lower(b))
    ELSE IF ascending THEN ~RatLess(b, a) ELSE ~RatLess(a, b)

\* C22: sort_papers returns the papers given, those with None in the sort
\* field after all those with a value, ascending and descending, and those
\* with a value in the requested order.
C22_NoneSortsLast ==
    (c_pc = "returned" /\ c_fn = "sort_papers") =>
        /\ Len(c_out) = Len(c_arg.papers)
        /\ {c_out[i] : i \in DOMAIN c_out} = {c_arg.papers[i] : i \in DOMAIN c_arg.papers}
        /\ \A i, j \in DOMAIN c_out :
              i < j =>
                  /\ ~HasValue(c_out[i], c_arg.sort_by) => ~HasValue(c_out[j], c_arg.sort_by)
                  /\ (HasValue(c_out[i], c_arg.sort_by) /\ HasValue(c_out[j], c_arg.sort_by))
                        => InDirection(SortValueOf(c_out[i], c_arg.sort_by),
                                       SortValueOf(c_out[j], c_arg.sort_by),
                                       c_arg.sort_by, c_arg.ascending)

\* the text the scope names, "" for None
ScopedText(p, scope) == IF p[scope].t = "str" THEN p[scope].s ELSE <<>>

\* C27: for keywords that are not empty and the scope 'title' or 'abstract',
\* filter_paper_by_keywords returns True only if one keyword (OR) or every
\* keyword (AND) is in the text of the scope, letter case ignored; so not
\* for a text that is empty.
C27_KeywordMatchIsSound ==
    (/\ c_pc = "returned"
     /\ c_fn = "filter_paper_by_keywords"
     /\ c_arg.keywords # <<>>
     /\ c_arg.field_scope \in {"title", "abstract"}
     /\ c_out = TRUE)
    => LET text == Lower(ScopedText(c_arg.paper, c_arg.field_scope))
           found(i) == IsSub(Lower(c_arg.keywords[i]), text)
       IN  /\ text # <<>>
           /\ IF c_arg.logic \in {"AND", "and"}
              THEN \A i \in DOMAIN c_arg.keywords : found(i)
              ELSE \E i \in DOMAIN c_arg.keywords : found(i)

-----------------------------------------------------------------------------
(* Claims about the papers of the session and the page *)

\* the venue and the year of the task that load_data is at (app.py 128-135, 158)
ContextVenue == venues_to_load[task_idx].venue
ContextYear ==
    IF venues_to_load[task_idx].custom THEN filters.year_start
    ELSE venues_to_load[task_idx].year

\* q is the paper p with the venue and the year of the task, and nothing
\* else different
StampedOnly(p, q) ==
    /\ DOMAIN q = DOMAIN p \cup {"venue", "year"}
    /\ \A k \in DOMAIN p \ {"venue", "year"} : q[k] = p[k]
    /\ q.venue = ContextVenue
    /\ q.year = ContextYear

\* C21: the papers of a candidate that gave papers go to all_papers with the
\* venue and the year of the task on every one and every other field as the
\* fetch returned it; papers already in all_papers stay as they are; the
\* papers of the session are those of all_papers at the end of a load;
\* filtering and sorting give papers of the session, with no field changed;
\* and the papers in the response cache stay as they were fetched.
C21_OnlyVenueAndYearStamped ==
    [][/\ (l_pc = "fetching" /\ l_pc' = "task") =>
              /\ Len(all_papers') = Len(all_papers) + Len(f_ret.papers)
              /\ \A i \in DOMAIN f_ret.papers :
                    StampedOnly(f_ret.papers[i], all_papers'[Len(all_papers) + i])
       /\ all_papers' # <<>> =>
              \A i \in DOMAIN all_papers : all_papers'[i] = all_papers[i]
       /\ ss_papers' # ss_papers => (ss_papers' = all_papers \/ ss_papers' = <<>>)
       /\ \A i \in DOMAIN filtered_papers' :
              \E j \in DOMAIN ss_papers' : filtered_papers'[i] = ss_papers'[j]
       /\ \A x \in DOMAIN resp_cache \cap DOMAIN resp_cache' :
              resp_cache'[x].at = resp_cache[x].at =>
                  resp_cache'[x].papers = resp_cache[x].papers]_vars

\* papers of the web scraper, which had a venue and a year of their own, are
\* on the page with the venue and the year of the task
C21_Witness ==
    /\ l_pc = "idle"
    /\ data_loaded
    /\ filtered_papers # <<>>
    /\ \E i \in DOMAIN filtered_papers :
          /\ filtered_papers[i].id = "w1"
          /\ filtered_papers[i].venue = AAAI
          /\ filtered_papers[i].year = 2025
          /\ filtered_papers[i].venue_id = <<"AAAI", ".org/", "2025", "/Conference">>

\* the papers the table is given
Matching == apply_filters(ss_papers, widgets)

\* C25: whenever papers match the filters, current_page is a page of the
\* table, 0 <= current_page <= total_pages - 1, and the slice of that page
\* holds a paper.
C25_PageInRange ==
    (l_pc = "idle" /\ data_loaded /\ Matching # <<>>) =>
        /\ 0 <= current_page
        /\ current_page <= TotalPages(Matching, widgets.page_size) - 1
        /\ PageSlice(Matching, current_page, widgets.page_size) # <<>>

\* the maximum of the max_score of the papers, 10.0 when none has one
ExpectedMaxScore(papers) ==
    IF \A i \in DOMAIN papers : NumberOf(papers[i], "max_score") = None
    THEN Float(10)
    ELSE LET scored == {i \in DOMAIN papers : NumberOf(papers[i], "max_score") # None}
             top == CHOOSE i \in scored :
                        \A j \in scored : ~RatLess(papers[i].max_score, papers[j].max_score)
         IN  papers[top].max_score

\* C26: the statistic given to render_sidebar_filters is that of the papers
\* the session holds at that call: their greatest max_score, and 10.0 when
\* none of them has a score.
C26_StatisticNeverStale == max_passed = ExpectedMaxScore(papers_seen)

=============================================================================
